---- MODULE Spec2Model ----
(***************************************************************************)
(* Model of the multi-stage product-matching pipeline of MiStockSync       *)
(* (src/main.py): compare_by_articles, compare_by_bracket_codes_advanced,  *)
(* compare_by_product_code_advanced, compare_by_fuzzy_string_matching and  *)
(* their orchestration in perform_comparison, together with the key        *)
(* extractors and the similarity scorer they call.                         *)
(*                                                                         *)
(* Text values are sequences of one-character strings.  A cell of a data   *)
(* frame is a record [t, v]: t = "str" (v the text), t = "int" (v the      *)
(* decimal digits of the integer), t = "num" (v an integer price) or       *)
(* t = "nan" (a missing value, pandas NaN/None).  An optional result of an *)
(* extractor is [t |-> "str", v |-> code] or None.                         *)
(***************************************************************************)
EXTENDS Integers, Sequences, FiniteSets, TLC

\* ------------------------------------------------------------------------
\* Bounds of the model
\* ------------------------------------------------------------------------
MaxSupplier == 2
MaxBase == 2
MaxPrice == 21
MaxOff == 1
MaxTokens == 3
MaxVariants == 3
MaxLen == 3
MaxNamed == 3

\* TRSH = 0.33 as the fraction TRSH_NUM / TRSH_DEN
TRSH_NUM == 33
TRSH_DEN == 100
TRSH == <<TRSH_NUM, TRSH_DEN>>

\* ------------------------------------------------------------------------
\* Characters and Python string primitives
\* ------------------------------------------------------------------------
Lowers == <<"a","b","c","d","e","f","g","h","i","j","k","l","m",
            "n","o","p","q","r","s","t","u","v","w","x","y","z">>
Uppers == <<"A","B","C","D","E","F","G","H","I","J","K","L","M",
            "N","O","P","Q","R","S","T","U","V","W","X","Y","Z">>
\* Cyrillic letters (em, a, che, es), written as ASCII tokens
CyrLowers == <<"cyr_m","cyr_a","cyr_ch","cyr_s">>
CyrUppers == <<"CYR_M","CYR_A","CYR_CH","CYR_S">>

LowerLatin == {Lowers[i] : i \in 1..26}
UpperLatin == {Uppers[i] : i \in 1..26}
LowerCyr == {CyrLowers[i] : i \in 1..4}
UpperCyr == {CyrUppers[i] : i \in 1..4}
DigitChars == {"0","1","2","3","4","5","6","7","8","9"}
DigitSeq == <<"0","1","2","3","4","5","6","7","8","9">>

\* \w of the re module: letters and digits of any script
WordChars == LowerLatin \cup UpperLatin \cup LowerCyr \cup UpperCyr \cup DigitChars
\* [A-Z0-9]
AZ09Chars == UpperLatin \cup DigitChars

SetMin(S) == CHOOSE x \in S : \A y \in S : x <= y
SetMax(S) == CHOOSE x \in S : \A y \in S : x >= y

\* the case mappings of the letters
to_upper ==
    [c \in LowerLatin \cup LowerCyr |->
        IF c \in LowerLatin THEN Uppers[CHOOSE i \in 1..26 : Lowers[i] = c]
        ELSE CyrUppers[CHOOSE i \in 1..4 : CyrLowers[i] = c]]
to_lower ==
    [c \in UpperLatin \cup UpperCyr |->
        IF c \in UpperLatin THEN Lowers[CHOOSE i \in 1..26 : Uppers[i] = c]
        ELSE CyrLowers[CHOOSE i \in 1..4 : CyrUppers[i] = c]]

\* str.upper(), str.lower(), str.strip()
str_upper(s) == [i \in 1..Len(s) |-> IF s[i] \in DOMAIN to_upper THEN to_upper[s[i]] ELSE s[i]]
str_lower(s) == [i \in 1..Len(s) |-> IF s[i] \in DOMAIN to_lower THEN to_lower[s[i]] ELSE s[i]]
strip_to(s, keep) == IF keep = {} THEN <<>> ELSE SubSeq(s, SetMin(keep), SetMax(keep))
str_strip(s) == strip_to(s, {i \in 1..Len(s) : s[i] # " "})

\* `sub in s`
str_contains(s, sub) ==
    \E i \in 0..(Len(s) - Len(sub)) : SubSeq(s, i + 1, i + Len(sub)) = sub

\* ------------------------------------------------------------------------
\* Cells and optional values
\* ------------------------------------------------------------------------
NaN == [t |-> "nan", v |-> <<>>]
None == [t |-> "none", v |-> <<>>]
StrCell(s) == [t |-> "str", v |-> s]
IntCell(digits) == [t |-> "int", v |-> digits]
NoPrice == [t |-> "nan", v |-> 0]
NumCell(n) == [t |-> "num", v |-> n]

\* pd.isna / pd.notna
pd_isna(x) == x.t \in {"nan", "none"}
pd_notna(x) == ~pd_isna(x)

\* str(x) of a cell
py_str(x) ==
    CASE x.t = "nan" -> <<"n","a","n">>
      [] x.t = "none" -> <<"N","o","n","e">>
      [] OTHER -> x.v

\* truthiness of an optional text: None and "" are falsy
truthy(x) == x.t = "str" /\ x.v # <<>>

\* text_str.split(): the words of s from position p on, a word being a
\* maximal run of characters that are not white space
RECURSIVE word_end(_, _)
word_end(s, p) == IF p < Len(s) /\ s[p + 1] # " " THEN word_end(s, p + 1) ELSE p

RECURSIVE str_split(_, _)
str_split_word(s, p, e) == <<SubSeq(s, p, e)>> \o str_split(s, e + 1)

str_split(s, p) ==
    IF p > Len(s) THEN <<>>
    ELSE IF s[p] = " " THEN str_split(s, p + 1)
    ELSE str_split_word(s, p, word_end(s, p))

\* " ".join(words)
RECURSIVE join_spaces(_)
join_spaces(words) ==
    IF words = <<>> THEN <<>>
    ELSE IF Len(words) = 1 THEN words[1]
    ELSE words[1] \o <<" ">> \o join_spaces(Tail(words))

\* cleaned if cleaned else None
text_or_none(cleaned) == IF cleaned = <<>> THEN None ELSE StrCell(cleaned)

clean_invisible_chars(text) ==
    IF pd_isna(text) THEN None
    ELSE text_or_none(join_spaces(str_split(str_strip(py_str(text)), 1)))

\* ------------------------------------------------------------------------
\* Key extractor: bracketed code
\* ------------------------------------------------------------------------
\* position of the first ")" after p, 0 when there is none
RECURSIVE next_close(_, _)
next_close(s, p) ==
    IF p >= Len(s) THEN 0
    ELSE IF s[p + 1] = ")" THEN p + 1
    ELSE next_close(s, p + 1)

\* the group from the "(" at p to the ")" at q, when it is not empty
bracket_group_at(s, p, q) == IF q >= p + 2 THEN <<TRUE, SubSeq(s, p + 1, q - 1)>> ELSE <<FALSE, <<>> >>

\* re.findall(r"\(([^)]+)\)", s)[0]: the content of the leftmost "(" that is
\* followed by at least one character other than ")" and then by ")".
\* Result: <<found, content>>.
RECURSIVE first_bracket_group_from(_, _)
first_bracket_group_from(s, p) ==
    IF p > Len(s) THEN <<FALSE, <<>> >>
    ELSE IF s[p] = "(" /\ next_close(s, p) >= p + 2
         THEN bracket_group_at(s, p, next_close(s, p))
         ELSE first_bracket_group_from(s, p + 1)

\* ^[A-Za-z<Cyrillic>0-9\-]+$
BracketCodeChars == WordChars \cup {"-"}

\* the checks on the cleaned content of the group
valid_bracket_code(code) ==
    IF /\ code # <<>>
       /\ \A i \in 1..Len(code) : code[i] \in BracketCodeChars
       /\ Len(code) >= 4
    THEN StrCell(code)
    ELSE None

bracket_group_code(g) ==
    IF ~g[1] THEN None ELSE valid_bracket_code(str_upper(str_strip(g[2])))

find_product_code_in_brackets(name) ==
    IF pd_isna(name) \/ name.t # "str" THEN None
    ELSE bracket_group_code(first_bracket_group_from(name.v, 1))

\* ------------------------------------------------------------------------
\* Key extractor: generic alphanumeric code (find_product_code_in_name)
\* ------------------------------------------------------------------------
word_boundary_before(U, p) == p = 1 \/ ~(U[p - 1] \in WordChars)
word_boundary_after(U, e) == e = Len(U) \/ ~(U[e + 1] \in WordChars)

\* end of the maximal run of [A-Z0-9] starting at p
RECURSIVE az09_run_end(_, _)
az09_run_end(U, p) ==
    IF p < Len(U) /\ (U[p + 1] \in AZ09Chars) THEN az09_run_end(U, p + 1) ELSE p

\* ends of the blocks of the greedy chain  block(-block)*  whose first block
\* ends at e
RECURSIVE hyphen_chain(_, _)
hyphen_chain(U, e) ==
    IF e + 2 <= Len(U) /\ U[e + 1] = "-" /\ (U[e + 2] \in AZ09Chars)
    THEN <<e>> \o hyphen_chain(U, az09_run_end(U, e + 2))
    ELSE <<e>>

\* the end of the match for a chain of blocks: the last group is given back
\* when no word boundary follows it
hyphen_chain_end(U, ends) ==
    IF Len(ends) >= 2 /\ word_boundary_after(U, ends[Len(ends)]) THEN ends[Len(ends)]
    ELSE IF Len(ends) >= 3 THEN ends[Len(ends) - 1]
    ELSE 0

\* r"\b[A-Z0-9]+(?:-[A-Z0-9]+)+\b" tried at position p: the end of the match,
\* 0 when there is none
hyphen_match_end(U, p) ==
    IF ~((U[p] \in AZ09Chars) /\ word_boundary_before(U, p)) THEN 0
    ELSE hyphen_chain_end(U, hyphen_chain(U, az09_run_end(U, p)))

\* re.findall of the hyphenated pattern, scanning from p: the match at the
\* first of the positions starts where there is one, then the scan goes on
\* after its end
RECURSIVE findall_hyphen(_, _)
findall_hyphen_step(U, starts) ==
    IF starts = {} THEN <<>>
    ELSE <<SubSeq(U, SetMin(starts), hyphen_match_end(U, SetMin(starts)))>>
         \o findall_hyphen(U, hyphen_match_end(U, SetMin(starts)) + 1)

findall_hyphen(U, p) ==
    findall_hyphen_step(U, {q \in p..Len(U) : hyphen_match_end(U, q) > 0})

\* maximal runs of \w characters from p on: the only substrings a pattern
\* \b<word characters>\b can match
RECURSIVE word_run_end(_, _)
word_run_end(U, p) ==
    IF p < Len(U) /\ (U[p + 1] \in WordChars) THEN word_run_end(U, p + 1) ELSE p

RECURSIVE word_runs(_, _)
word_runs_step(U, p, e) == <<SubSeq(U, p, e)>> \o word_runs(U, e + 1)

word_runs(U, p) ==
    IF p > Len(U) THEN <<>>
    ELSE IF ~(U[p] \in WordChars) THEN word_runs(U, p + 1)
    ELSE word_runs_step(U, p, word_run_end(U, p))

\* number of consecutive characters of r from position p that lie in S
RECURSIVE count_class(_, _, _)
count_class(r, p, S) ==
    IF p <= Len(r) /\ r[p] \in S THEN 1 + count_class(r, p + 1, S) ELSE 0

\* the lengths of the alternating runs of r from position p: a run of the
\* first class of the list, then a run of the second one, ...
RECURSIVE class_runs(_, _, _)
class_runs_step(r, p, classes, n) ==
    <<n>> \o class_runs(r, p + n, SubSeq(classes, 2, Len(classes)))

class_runs(r, p, classes) ==
    IF classes = <<>> THEN <<>>
    ELSE class_runs_step(r, p, classes, count_class(r, p, classes[1]))

\* [A-Z]{2,}[0-9]{2,}[A-Z]*
letters_digits_runs(r, n) == n[1] >= 2 /\ n[2] >= 2 /\ n[1] + n[2] + n[3] = Len(r)
pat_letters_digits(r) ==
    letters_digits_runs(r, class_runs(r, 1, <<UpperLatin, DigitChars, UpperLatin>>))

\* [0-9]{3,}[A-Z]{1,3}
digits_letters_runs(r, n) == n[1] >= 3 /\ n[2] >= 1 /\ n[2] <= 3 /\ n[1] + n[2] = Len(r)
pat_digits_letters(r) ==
    digits_letters_runs(r, class_runs(r, 1, <<DigitChars, UpperLatin>>))

\* [A-Z][0-9]{4,}[A-Z][0-9]+
model_runs(r, n) ==
    n[1] = 1 /\ n[2] >= 4 /\ n[3] = 1 /\ n[4] >= 1 /\ n[1] + n[2] + n[3] + n[4] = Len(r)
pat_model(r) ==
    model_runs(r, class_runs(r, 1, <<UpperLatin, DigitChars, UpperLatin, DigitChars>>))

\* [A-Z]{4,8}
pat_caps(r) ==
    Len(r) >= 4 /\ Len(r) <= 8 /\ \A i \in 1..Len(r) : r[i] \in UpperLatin

\* <one capital of the class>[0-9]{1,3}
short_runs(r, n) == n[1] = 1 /\ n[2] >= 1 /\ n[2] <= 3 /\ n[1] + n[2] = Len(r)

\* [A-Z][0-9]{1,3}
pat_short_latin(r) == short_runs(r, class_runs(r, 1, <<UpperLatin, DigitChars>>))

\* [<Cyrillic capital>][0-9]{1,3}
pat_short_cyr(r) == short_runs(r, class_runs(r, 1, <<UpperCyr, DigitChars>>))

code_stoplist ==
    { <<"U","S","B","-","C">>, <<"P","O","W","E","R">>,
      <<"P","O","R","T","A","B","L","E">>, <<"C","H","A","R","G","E","R">>,
      <<"B","A","N","K">> }

unit_suffixes == { <<"m","a","h">>, <<"w">>, <<"w","h">>, <<"m","a">> }

\* re.match(r"^\d+(mah|w|wh|ma)$", l): l is d digits and a unit
digits_and_unit(l, d) == d >= 1 /\ SubSeq(l, d + 1, Len(l)) \in unit_suffixes
unit_value(l) == digits_and_unit(l, count_class(l, 1, DigitChars))

\* the `continue` conditions of the filter loop
code_excluded(m) ==
    \/ unit_value(str_lower(m))
    \/ Len(m) >= 5 /\ \A i \in 1..Len(m) : m[i] \in DigitChars
    \/ m \in code_stoplist

\* the seven findall lists, in pattern order
pattern_lists(U, runs) ==
    << findall_hyphen(U, 1),
       SelectSeq(runs, pat_letters_digits),
       SelectSeq(runs, pat_digits_letters),
       SelectSeq(runs, pat_model),
       SelectSeq(runs, pat_caps),
       SelectSeq(runs, pat_short_latin),
       SelectSeq(runs, pat_short_cyr) >>

pattern_matches(U) == pattern_lists(U, word_runs(U, 1))

\* per pattern, the positions of the matches the filter loop lets through
accepted_matches(lists) ==
    [k \in 1..7 |-> {i \in 1..Len(lists[k]) : ~code_excluded(lists[k][i])}]

\* the first accepted match of the first pattern that has one
first_accepted(lists, accepted, hits) ==
    IF hits = {} THEN None
    ELSE StrCell(lists[SetMin(hits)][SetMin(accepted[SetMin(hits)])])

first_code_of(lists, accepted) ==
    first_accepted(lists, accepted, {k \in 1..7 : accepted[k] # {}})

first_code(lists) == first_code_of(lists, accepted_matches(lists))

find_product_code_in_name(name) ==
    IF pd_isna(name) \/ name.t # "str" THEN None
    ELSE first_code(pattern_matches(str_upper(name.v)))

\* ------------------------------------------------------------------------
\* Key extractor: unified entry point
\* ------------------------------------------------------------------------
brands ==
    << <<"G","R","E","E","N","O","E">>, <<"X","I","A","O","M","I">>,
       <<"S","A","M","S","U","N","G">>, <<"A","P","P","L","E">>,
       <<"H","U","A","W","E","I">>, <<"O","P","P","O">>,
       <<"V","I","V","O">>, <<"O","N","E","P","L","U","S">> >>

\* variant: the later source wins
first_truthy_reversed(a, b) == IF truthy(b) THEN b ELSE a

\* `a or b` on optional texts
first_truthy(a, b) == IF truthy(a) THEN a ELSE b

\* the first brand of the list that the name holds
first_brand(found) == IF found # {} THEN StrCell(brands[SetMin(found)]) ELSE None
brand_code(name_upper) ==
    first_brand({i \in 1..Len(brands) : str_contains(name_upper, brands[i])})

\* variant: a generic code of any length is accepted
long_code_any_length(name_code) == name_code

\* if name_code and len(name_code) >= 4
long_code(name_code) ==
    IF truthy(name_code) /\ Len(name_code.v) >= 4 THEN name_code ELSE None

find_product_code_unified(name) ==
    IF pd_isna(name) \/ name.t # "str" THEN None
    ELSE first_truthy(find_product_code_in_brackets(name),
             first_truthy(brand_code(str_upper(name.v)),
                          long_code(find_product_code_in_name(name))))

\* ------------------------------------------------------------------------
\* Battery capacity extractor
\* ------------------------------------------------------------------------
digit_value(c) == (CHOOSE i \in 1..10 : DigitSeq[i] = c) - 1

\* int(digits); the values from 100000000 on are not told apart: a value is
\* only compared with 5 and 999999
int_append(n, d) == IF n >= 100000000 THEN n ELSE 10 * n + d

RECURSIVE py_int(_)
py_int(ds) ==
    IF ds = <<>> THEN 0
    ELSE int_append(py_int(SubSeq(ds, 1, Len(ds) - 1)), digit_value(ds[Len(ds)]))

\* the unit follows the digits that start at p and end before q, after white
\* space when the pattern allows it
unit_follows(s, q, unit, spaces) ==
    \E a \in {IF spaces THEN q + count_class(s, q, {" "}) ELSE q} :
        /\ a + Len(unit) - 1 <= Len(s)
        /\ SubSeq(s, a, a + Len(unit) - 1) = unit

\* re.search(r"(\d+)\s*<unit>", s) when spaces, re.search(r"(\d+)<unit>", s)
\* otherwise, from position p on: group 1 of the leftmost match, None when
\* nothing matches
RECURSIVE search_capacity_from(_, _, _, _)
search_capacity_from(s, unit, spaces, p) ==
    IF p > Len(s) THEN None
    ELSE IF /\ s[p] \in DigitChars
            /\ unit_follows(s, p + count_class(s, p, DigitChars), unit, spaces)
         THEN StrCell(SubSeq(s, p, p + count_class(s, p, DigitChars) - 1))
         ELSE search_capacity_from(s, unit, spaces, p + 1)

capacity_units ==
    << <<"m","a","h">>, <<"m","a","h">>, <<"m","a","h">>, <<"m","a","h">>,
       <<"cyr_m","cyr_a","cyr_ch">>, <<"cyr_m","cyr_a","cyr_ch">>,
       <<"cyr_m","cyr_ch">>, <<"cyr_m","cyr_ch">> >>

\* variant: every number is taken for a capacity
plausible_capacity_any(n) == TRUE

\* 5 <= capacity <= 999999
plausible_capacity(n) == n >= 5 /\ n <= 999999

\* the result of the first pattern whose match is a plausible capacity
first_plausible(found, good) == IF good = {} THEN None ELSE found[SetMin(good)]
first_capacity(found) ==
    first_plausible(found, {k \in 1..8 : /\ found[k] # None
                                         /\ plausible_capacity(py_int(found[k].v))})

find_battery_capacity(name) ==
    IF pd_isna(name) \/ name.t # "str" THEN None
    ELSE \* patterns 1, 3, 5, 7 allow white space before the unit
         first_capacity([k \in 1..8 |->
             search_capacity_from(str_lower(name.v), capacity_units[k], k % 2 = 1, 1)])

\* ------------------------------------------------------------------------
\* Text normalizer
\* ------------------------------------------------------------------------
\* variant: the tokens nan and none are recognized in lower case only
normalized_color_exact_case(color_str) ==
    IF color_str \in { <<"n","a","n">>, <<"n","o","n","e">>, <<>> }
    THEN <<>>
    ELSE str_lower(color_str)

normalized_color(color_str) ==
    IF \/ color_str = <<>>
       \/ str_lower(color_str) \in { <<"n","a","n">>, <<"n","o","n","e">>, <<>> }
    THEN <<>>
    ELSE str_lower(color_str)

\* returns the normalized colour as a text
safe_color_processing(color_value) ==
    IF pd_isna(color_value) THEN <<>>
    ELSE normalized_color(str_strip(py_str(color_value)))

\* ------------------------------------------------------------------------
\* Similarity scorer (difflib.SequenceMatcher.ratio)
\* ------------------------------------------------------------------------
RECURSIVE common_prefix_len(_, _, _, _)
common_prefix_len(a, i, b, j) ==
    IF i > Len(a) \/ j > Len(b) THEN 0
    ELSE IF a[i] # b[j] THEN 0
    ELSE 1 + common_prefix_len(a, i + 1, b, j + 1)

\* the sizes of the common blocks, by the start positions at which the two
\* texts have the same character
block_sizes(a, b) ==
    [q \in {r \in (1..Len(a)) \X (1..Len(b)) : a[r[1]] = b[r[2]]}
        |-> common_prefix_len(a, q[1], b, q[2])]

\* of the blocks of the size best that start at bi in a, the earliest in b
earliest_in_b(b, size, best, bi) ==
    <<bi, SetMin({q[2] : q \in {r \in DOMAIN size : r[1] = bi /\ size[r] = best}}), best>>

\* of the blocks of the size best, the one starting earliest in a, then in b
earliest_block(b, size, best) ==
    IF best = 0 THEN <<1, 1, 0>>
    ELSE earliest_in_b(b, size, best,
             SetMin({q[1] : q \in {r \in DOMAIN size : size[r] = best}}))

longest_block(b, size) ==
    earliest_block(b, size, SetMax({size[q] : q \in DOMAIN size} \cup {0}))

\* <<i, j, k>>: the longest common block a[i..i+k-1] = b[j..j+k-1]
find_longest_match(a, b) == longest_block(b, block_sizes(a, b))

\* total size of the matching blocks (get_matching_blocks): the longest
\* block m, then recursively the pieces to its left and to its right
RECURSIVE matching_chars(_, _)
matching_chars_around(a, b, m) ==
    IF m[3] = 0 THEN 0
    ELSE m[3]
         + matching_chars(SubSeq(a, 1, m[1] - 1), SubSeq(b, 1, m[2] - 1))
         + matching_chars(SubSeq(a, m[1] + m[3], Len(a)),
                          SubSeq(b, m[2] + m[3], Len(b)))

matching_chars(a, b) ==
    IF a = <<>> \/ b = <<>> THEN 0
    ELSE matching_chars_around(a, b, find_longest_match(a, b))

\* ratio() = 2.0 * M / T as the fraction <<2M, T>>; 1.0 when both are empty
sequence_matcher_ratio(a, b) ==
    IF Len(a) + Len(b) = 0 THEN <<1, 1>>
    ELSE <<2 * matching_chars(a, b), Len(a) + Len(b)>>

\* comparisons of fractions with positive denominators
ratio_ge(r, q) == r[1] * q[2] >= q[1] * r[2]
ratio_gt(r, q) == r[1] * q[2] > q[1] * r[2]

\* ------------------------------------------------------------------------
\* Configuration: which columns hold the article and the price
\* ------------------------------------------------------------------------
Configs == {"vitya", "dimi", "auto"}

get_supplier_article_column(cfg) ==
    IF cfg = "vitya" THEN "article_vitya"
    ELSE IF cfg = "dimi" THEN "article_dimi"
    ELSE "article"

get_supplier_price_column(cfg) ==
    IF cfg = "vitya" THEN "price_usd"
    ELSE IF cfg = "dimi" THEN "price_usd"
    ELSE "price"

get_base_article_column(cfg) ==
    IF cfg = "vitya" THEN "article_vitya"
    ELSE IF cfg = "dimi" THEN "article_dimi"
    ELSE "article"

get_base_price_column(cfg) ==
    IF cfg = "vitya" THEN "price_vitya_usd"
    ELSE IF cfg = "dimi" THEN "price_dimi_usd"
    ELSE "price"

\* f"article_{supplier_config}"
config_article_column(cfg) == "article_" \o cfg

\* A supplier row is [article, price, name, color]: the cells of the article
\* and price columns of the active configuration, of "name" and of "color".
supplier_columns(cfg) ==
    {get_supplier_article_column(cfg), get_supplier_price_column(cfg), "name", "color"}

\* row.get(col, default) on a supplier row
supplier_get(row, cfg, col, default) ==
    IF col \notin supplier_columns(cfg) THEN default
    ELSE IF col = get_supplier_article_column(cfg) THEN row.article
    ELSE IF col = get_supplier_price_column(cfg) THEN row.price
    ELSE IF col = "name" THEN row.name
    ELSE row.color

\* row[col] on a base row
base_get(row, col) ==
    CASE col = "article" -> row.article
      [] col = "article_vitya" -> row.article_vitya
      [] col = "article_dimi" -> row.article_dimi
      [] col = "article_mila" -> row.article_mila
      [] col = "name" -> row.name
      [] col = "color" -> row.color
      [] col = "price" -> row.price
      [] col = "price_vitya_usd" -> row.price_vitya_usd
      [] col = "price_dimi_usd" -> row.price_dimi_usd
      [] col = "price_mila_usd" -> row.price_mila_usd

\* get_base_price_from_config on a row of the base sheet
get_base_price_from_config(row, cfg) ==
    IF /\ get_base_price_column(cfg) \in DOMAIN row
       /\ pd_notna(base_get(row, get_base_price_column(cfg)))
       /\ base_get(row, get_base_price_column(cfg)).v > 0
    THEN base_get(row, get_base_price_column(cfg)).v
    ELSE 0

\* row.get(col, 0) on a row of the base sheet, a record of its columns
row_get(row, col) == IF col \in DOMAIN row THEN base_get(row, col) ELSE NumCell(0)

\* ------------------------------------------------------------------------
\* Stage 1: compare_by_articles
\* ------------------------------------------------------------------------
\* the dictionary key made of an article cell
article_key(cfg, article_value) ==
    IF cfg = "vitya" /\ article_value.t = "int" THEN py_str(article_value)
    ELSE str_strip(py_str(article_value))

\* if article and article != "nan" and article != "None"
usable_key(article) ==
    article # <<>> /\ article # <<"n","a","n">> /\ article # <<"N","o","n","e">>

\* d[key] = entry on an insertion-ordered dict kept as a sequence of entries
dict_put(d, entry) ==
    IF \E j \in 1..Len(d) : d[j].article = entry.article
    THEN [d EXCEPT ![CHOOSE j \in 1..Len(d) : d[j].article = entry.article] = entry]
    ELSE Append(d, entry)

dict_has(d, key) == \E j \in 1..Len(d) : d[j].article = key
dict_at(d, key) == d[CHOOSE j \in 1..Len(d) : d[j].article = key]

\* supplier_dict after the rows i.. of supplier_df have been added to acc;
\* the rows with a missing article or price are dropped (dropna)
RECURSIVE build_supplier_dict(_, _, _, _)
build_supplier_dict(supplier_df, cfg, i, acc) ==
    IF i > Len(supplier_df) THEN acc
    ELSE LET row == supplier_df[i]
             article == article_key(cfg, row.article)
         IN  IF pd_notna(row.article) /\ pd_notna(row.price) /\ usable_key(article)
             THEN build_supplier_dict(supplier_df, cfg, i + 1,
                      dict_put(acc, [article |-> article,
                                     price |-> row.price.v,
                                     name |-> row.name,
                                     index |-> i - 1,
                                     color |-> safe_color_processing(row.color)]))
             ELSE build_supplier_dict(supplier_df, cfg, i + 1, acc)

\* base_dict: the rows with a missing article are dropped
RECURSIVE build_base_dict(_, _, _, _)
build_base_dict(base_df, cfg, i, acc) ==
    IF i > Len(base_df) THEN acc
    ELSE LET row == base_df[i]
             cell == base_get(row, get_base_article_column(cfg))
             article == article_key(cfg, cell)
         IN  IF pd_notna(cell) /\ usable_key(article)
             THEN build_base_dict(base_df, cfg, i + 1,
                      dict_put(acc, [article |-> article,
                                     price |-> get_base_price_from_config(row, cfg),
                                     name |-> row.name,
                                     index |-> i - 1,
                                     color |-> safe_color_processing(row.color)]))
             ELSE build_base_dict(base_df, cfg, i + 1, acc)

\* a percentage as the fraction <<numerator, denominator>>; denominator 0 is
\* the float nan
price_change_percent(supplier_price, base_price) ==
    IF base_price > 0 THEN <<(supplier_price - base_price) * 100, base_price>>
    ELSE <<0, 1>>

abs(n) == IF n < 0 THEN -n ELSE n

\* variant: a change of exactly 5 percent counts as significant
significant_change_inclusive(pct) == pct[2] > 0 /\ abs(pct[1]) >= 5 * pct[2]

\* abs(match_info["price_change_percent"]) > 5
significant_change(pct) == pct[2] > 0 /\ abs(pct[1]) > 5 * pct[2]

\* supplier_data["name"] or base_data["name"]
name_or(a, b) == IF a.t = "str" /\ a.v = <<>> THEN b ELSE a

article_match_info(supplier_data, base_data) ==
    [article |-> supplier_data.article,
     supplier_price |-> supplier_data.price,
     base_price |-> base_data.price,
     name |-> name_or(supplier_data.name, base_data.name),
     price_diff |-> supplier_data.price - base_data.price,
     price_change_percent |-> price_change_percent(supplier_data.price, base_data.price),
     base_index |-> base_data.index]

\* variant: a similarity of exactly TRSH is rejected
better_fuzzy_strict(best, j, ratio) ==
    IF ratio_gt(ratio, TRSH) /\ ratio_gt(ratio, best[2]) THEN <<j, ratio>> ELSE best

\* variant: a later base name of the same similarity replaces the best so far
better_fuzzy_last_tie(best, j, ratio) ==
    IF ratio_ge(ratio, TRSH) /\ ratio_ge(ratio, best[2]) THEN <<j, ratio>> ELSE best

\* if ratio >= TRSH and ratio > best_ratio: the base name j is the best so far
better_fuzzy(best, j, ratio) ==
    IF ratio_ge(ratio, TRSH) /\ ratio_gt(ratio, best[2]) THEN <<j, ratio>> ELSE best

\* the loop over base_names: <<position of best_match (0 = None), best_ratio>>
RECURSIVE best_fuzzy_match(_, _, _, _)
best_fuzzy_match(candidate_name, base_names, j, best) ==
    IF j > Len(base_names) THEN best
    ELSE best_fuzzy_match(candidate_name, base_names, j + 1,
             better_fuzzy(best, j,
                 sequence_matcher_ratio(str_lower(candidate_name),
                                        str_lower(base_names[j].name))))

\* the concatenation of a list of lists
RECURSIVE flatten(_)
flatten(ss) ==
    IF ss = <<>> THEN <<>> ELSE ss[1] \o flatten(SubSeq(ss, 2, Len(ss)))

\* the base names the lookup compares: str(name).strip() unless "" or "nan"
lookup_base_name(row) ==
    IF str_strip(py_str(row.name)) \in {<<>>, <<"n","a","n">>} THEN <<>>
    ELSE << [name |-> str_strip(py_str(row.name))] >>

lookup_base_names(base_df) ==
    flatten([i \in 1..Len(base_df) |-> lookup_base_name(base_df[i])])

\* the name returned for best = <<position of best_match, best_ratio>>;
\* "" stands for "not found"
lookup_result(base_names, best) ==
    IF best[1] # 0 THEN base_names[best[1]].name ELSE <<>>

\* the name found for a supplier name in self.base_df (the row, colour and
\* price hints are left out); a name that is not a text raises inside the
\* try block, which returns "not found"
find_item_by_fuzzy_matching(supplier_name, base_df) ==
    IF base_df = <<>> THEN <<>>
    ELSE IF supplier_name.t # "str" THEN <<>>
    ELSE IF str_strip(supplier_name.v) = <<>> THEN <<>>
    ELSE lookup_result(lookup_base_names(base_df),
             best_fuzzy_match(supplier_name.v, lookup_base_names(base_df), 1,
                              <<0, <<0, 1>> >>))

\* `not text` of a cell
falsy(x) == x.t = "none" \/ (x.t = "str" /\ x.v = <<>>)

_calculate_similarity(text1, text2) ==
    IF falsy(text1) \/ falsy(text2) THEN <<0, 1>>
    ELSE sequence_matcher_ratio(str_lower(py_str(text1)), str_lower(py_str(text2)))

new_item_with_hint(supplier_data, fuzzy_match_name) ==
    [article |-> supplier_data.article,
     price |-> supplier_data.price,
     name |-> supplier_data.name,
     color |-> supplier_data.color,
     supplier_article |-> supplier_data.article,
     fuzzy_match_name |-> fuzzy_match_name,
     fuzzy_match_similarity |->
         IF fuzzy_match_name # <<>>
         THEN _calculate_similarity(supplier_data.name, StrCell(fuzzy_match_name))
         ELSE <<0, 1>>]

new_item_info(supplier_data, base_df) ==
    new_item_with_hint(supplier_data,
                       find_item_by_fuzzy_matching(supplier_data.name, base_df))

\* the loop over supplier_dict.items()
matches_of(hit, base_dict) ==
    [j \in 1..Len(hit) |-> article_match_info(hit[j], dict_at(base_dict, hit[j].article))]

stage1_matches(supplier_dict, base_dict) ==
    matches_of(SelectSeq(supplier_dict, LAMBDA e : dict_has(base_dict, e.article)), base_dict)

new_items_of(miss, base_df) == [j \in 1..Len(miss) |-> new_item_info(miss[j], base_df)]

\* variant: every supplier key is listed as a new item, matched or not
stage1_new_items_unconditional(supplier_dict, base_dict, base_df) ==
    new_items_of(supplier_dict, base_df)

stage1_new_items(supplier_dict, base_dict, base_df) ==
    new_items_of(SelectSeq(supplier_dict, LAMBDA e : ~dict_has(base_dict, e.article)),
                 base_df)

\* the dict compare_by_articles returns
article_results_of(supplier_dict, base_dict, found, base_df) ==
    [matches |-> found,
     price_changes |-> SelectSeq(found, LAMBDA m : significant_change(m.price_change_percent)),
     new_items |-> stage1_new_items(supplier_dict, base_dict, base_df),
     supplier_dict |-> supplier_dict,
     base_dict |-> base_dict]

compare_dicts(supplier_dict, base_dict, base_df) ==
    article_results_of(supplier_dict, base_dict, stage1_matches(supplier_dict, base_dict),
                       base_df)

compare_by_articles(supplier_df, base_df, cfg) ==
    compare_dicts(build_supplier_dict(supplier_df, cfg, 1, <<>>),
                  build_base_dict(base_df, cfg, 1, <<>>), base_df)

\* ------------------------------------------------------------------------
\* Stages 2 and 3: code matches
\* ------------------------------------------------------------------------
\* {item["article"] for item in new_items_list}
new_articles_set(new_items_list) ==
    {new_items_list[j].article : j \in 1..Len(new_items_list)}

add_code(rest, code) ==
    IF \E j \in 1..Len(rest) : rest[j] = code THEN rest ELSE Append(rest, code)

\* keys of a dict of lists, in insertion order
RECURSIVE distinct_codes(_)
distinct_codes(variants) ==
    IF variants = <<>> THEN <<>>
    ELSE add_code(distinct_codes(SubSeq(variants, 1, Len(variants) - 1)),
                  variants[Len(variants)].code)

\* dict[code]
code_group(variants, code) == SelectSeq(variants, LAMBDA v : v.code = code)

\* the variant a supplier row adds to the list of its code
supplier_variant_of(row, i, cfg, article_cell, code) ==
    [code |-> code.v,
     index |-> i - 1,
     name |-> row.name,
     price |-> supplier_get(row, cfg, "price_usd", NumCell(0)),
     article |-> article_cell,
     color |-> safe_color_processing(row.color),
     capacity |-> find_battery_capacity(row.name)]

\* one pass of the supplier loop: the row counts when it has a name, passes
\* the new-items filter and yields a code
supplier_row_variants(row, i, cfg, new_items_list, article_cell, code) ==
    IF /\ pd_notna(row.name)
       /\ ~(/\ new_items_list # <<>>
            /\ py_str(article_cell) \notin new_articles_set(new_items_list))
       /\ truthy(code)
    THEN <<supplier_variant_of(row, i, cfg, article_cell, code)>>
    ELSE <<>>

\* find_product_code_in_brackets (Stage 2) or find_product_code_unified
\* (Stage 3)
row_code(name, bracket_only) ==
    IF bracket_only THEN find_product_code_in_brackets(name)
    ELSE find_product_code_unified(name)

\* The supplier-side loop of both functions, in row order
RECURSIVE supplier_code_variants(_, _, _, _, _)
supplier_code_variants(supplier_df, cfg, new_items_list, bracket_only, i) ==
    IF i > Len(supplier_df) THEN <<>>
    ELSE supplier_row_variants(supplier_df[i], i, cfg, new_items_list,
             supplier_get(supplier_df[i], cfg, config_article_column(cfg), StrCell(<<>>)),
             row_code(supplier_df[i].name, bracket_only))
         \o supplier_code_variants(supplier_df, cfg, new_items_list, bracket_only, i + 1)

supplier_article_columns == <<"article_vitya", "article_dimi", "article_mila">>

\* the code of str(cell) for a cell that is not missing
cell_code(cell, bracket_only) ==
    IF pd_notna(cell) THEN row_code(StrCell(py_str(cell)), bracket_only) ELSE None

\* the codes of the per-supplier article columns of a base row
column_codes(row, bracket_only) ==
    [k \in 1..3 |-> cell_code(base_get(row, supplier_article_columns[k]), bracket_only)]

\* the variant a base row adds for a code found in its field matched_in
bracket_variant(row, i, matched_in, color, capacity, code) ==
    IF truthy(code)
    THEN << [code |-> code.v,
             index |-> i - 1,
             name |-> row.name,
             price |-> row_get(row, "price"),
             article |-> row.article,
             matched_in |-> matched_in,
             color |-> color,
             capacity |-> capacity] >>
    ELSE <<>>

base_row_bracket_variants(row, i, color, capacity, name_code, col_code) ==
    bracket_variant(row, i, "name", color, capacity, name_code)
    \o flatten([k \in 1..3 |->
           bracket_variant(row, i, supplier_article_columns[k], color, capacity,
                           col_code[k])])

\* Base side of compare_by_bracket_codes_advanced: per row, the code of the
\* name, then the codes of the per-supplier article columns
RECURSIVE base_bracket_variants(_, _)
base_bracket_variants(base_df, i) ==
    IF i > Len(base_df) THEN <<>>
    ELSE base_row_bracket_variants(base_df[i], i,
             safe_color_processing(base_df[i].color),
             find_battery_capacity(base_df[i].name),
             find_product_code_in_brackets(base_df[i].name),
             column_codes(base_df[i], TRUE))
         \o base_bracket_variants(base_df, i + 1)

\* the variant a base row adds for a code of the generic-code stage
code_variant(row, i, color, capacity, prices, code) ==
    IF truthy(code)
    THEN << [code |-> code.v,
             index |-> i - 1,
             name |-> row.name,
             price |-> row_get(row, "price"),
             article |-> row.article,
             color |-> color,
             capacity |-> capacity,
             price_vitya_usd |-> prices[1],
             price_dimi_usd |-> prices[2],
             price_mila_usd |-> prices[3]] >>
    ELSE <<>>

\* one pass of the base loop of compare_by_product_code_advanced on the
\* state acc = [variants, bound, prices, failed].  The locals
\* price_vitya_float, price_dimi_float and price_mila_float (prices) are
\* assigned only when the name of a row yields a code (named); the
\* article-column branch reads them, so it uses the values left by an earlier
\* row, and raises UnboundLocalError (failed) when there is none.
base_code_row_named(row, i, acc, color, capacity, name_code, col_code, named, prices) ==
    IF ~(acc.bound \/ named) /\ \E k \in 1..3 : truthy(col_code[k])
    THEN [acc EXCEPT !.failed = TRUE]
    ELSE [variants |-> acc.variants
                       \o (IF named
                           THEN code_variant(row, i, color, capacity, prices, name_code)
                           ELSE <<>>)
                       \o flatten([k \in 1..3 |->
                              code_variant(row, i, color, capacity, prices, col_code[k])]),
          bound |-> acc.bound \/ named,
          prices |-> prices,
          failed |-> FALSE]

base_code_row_prices(row, i, acc, color, capacity, name_code, col_code, named) ==
    base_code_row_named(row, i, acc, color, capacity, name_code, col_code, named,
        IF named THEN <<row_get(row, "price_vitya_usd"), row_get(row, "price_dimi_usd"),
                        row_get(row, "price_mila_usd")>>
        ELSE acc.prices)

base_code_row(row, i, acc, color, capacity, name_code, col_code) ==
    base_code_row_prices(row, i, acc, color, capacity, name_code, col_code,
                         pd_notna(row.name) /\ truthy(name_code))

\* Base side of compare_by_product_code_advanced
RECURSIVE base_code_variants(_, _, _)
base_code_variants(base_df, i, acc) ==
    IF i > Len(base_df) \/ acc.failed THEN acc
    ELSE base_code_variants(base_df, i + 1,
             base_code_row(base_df[i], i, acc,
                 safe_color_processing(base_df[i].color),
                 find_battery_capacity(base_df[i].name),
                 find_product_code_unified(base_df[i].name),
                 column_codes(base_df[i], FALSE)))

\* variant: the capacity is looked at before the colour
choose_variant_capacity_first(supplier_variant, base_variants) ==
    LET n == Len(base_variants)
        both == {j \in 1..n : /\ supplier_variant.color = base_variants[j].color
                              /\ supplier_variant.capacity = base_variants[j].capacity}
        by_color == {j \in 1..n : supplier_variant.color = base_variants[j].color}
        by_capacity == {j \in 1..n : supplier_variant.capacity = base_variants[j].capacity}
    IN  IF both # {} THEN <<SetMin(both), TRUE, TRUE>>
        ELSE IF by_capacity # {} THEN <<SetMin(by_capacity), FALSE, TRUE>>
        ELSE IF by_color # {} THEN <<SetMin(by_color), TRUE, FALSE>>
        ELSE <<1, FALSE, FALSE>>

\* Variant disambiguation: <<position of the chosen base variant, color_match,
\* capacity_match>> for a non-empty list of base variants
\* variant: the first variant taken for want of a better one is flagged as
\* a match by colour
choose_variant_first_flagged(supplier_variant, base_variants) ==
    LET n == Len(base_variants)
        both == {j \in 1..n : /\ supplier_variant.color = base_variants[j].color
                              /\ supplier_variant.capacity = base_variants[j].capacity}
        by_color == {j \in 1..n : supplier_variant.color = base_variants[j].color}
        by_capacity == {j \in 1..n : supplier_variant.capacity = base_variants[j].capacity}
    IN  IF both # {} THEN <<SetMin(both), TRUE, TRUE>>
        ELSE IF by_color # {} THEN <<SetMin(by_color), TRUE, FALSE>>
        ELSE IF by_capacity # {} THEN <<SetMin(by_capacity), FALSE, TRUE>>
        ELSE <<1, TRUE, FALSE>>

choose_variant(supplier_variant, base_variants) ==
    LET n == Len(base_variants)
        both == {j \in 1..n : /\ supplier_variant.color = base_variants[j].color
                              /\ supplier_variant.capacity = base_variants[j].capacity}
        by_color == {j \in 1..n : supplier_variant.color = base_variants[j].color}
        by_capacity == {j \in 1..n : supplier_variant.capacity = base_variants[j].capacity}
    IN  IF both # {} THEN <<SetMin(both), TRUE, TRUE>>
        ELSE IF by_color # {} THEN <<SetMin(by_color), TRUE, FALSE>>
        ELSE IF by_capacity # {} THEN <<SetMin(by_capacity), FALSE, TRUE>>
        ELSE <<1, FALSE, FALSE>>

\* get_base_price_from_config applied to a variant dict: the dict made by the
\* bracket stage has the key "price" only, the one made by the generic-code
\* stage also has the three per-supplier price keys
variant_base_price(variant, cfg, bracket_only) ==
    LET col == get_base_price_column(cfg)
        present == col = "price" \/ (~bracket_only /\ col \in {"price_vitya_usd", "price_dimi_usd", "price_mila_usd"})
        cell == CASE col = "price" -> variant.price
                  [] col = "price_vitya_usd" /\ ~bracket_only -> variant.price_vitya_usd
                  [] col = "price_dimi_usd" /\ ~bracket_only -> variant.price_dimi_usd
                  [] OTHER -> NoPrice
    IN  IF present /\ pd_notna(cell) /\ cell.v > 0 THEN cell.v ELSE 0

\* price_change_percent of a code match; the supplier price may be nan
code_price_change_percent(supplier_price, base_price) ==
    IF base_price > 0
    THEN IF pd_isna(supplier_price) THEN <<0, 0>>
         ELSE <<(supplier_price.v - base_price) * 100, base_price>>
    ELSE <<0, 1>>

code_match_record(code, supplier_variant, best_match, chosen, base_price, bracket_only) ==
    [code |-> code,
     supplier_name |-> supplier_variant.name,
     base_name |-> best_match.name,
     supplier_price |-> supplier_variant.price,
     base_price |-> base_price,
     supplier_article |-> supplier_variant.article,
     base_article |-> best_match.article,
     supplier_color |-> supplier_variant.color,
     base_color |-> best_match.color,
     supplier_capacity |-> supplier_variant.capacity,
     base_capacity |-> best_match.capacity,
     matched_in |-> IF bracket_only THEN best_match.matched_in ELSE "",
     base_index |-> best_match.index,
     match_type |-> IF bracket_only THEN "bracket_code" ELSE "product_code",
     color_match |-> chosen[2],
     capacity_match |-> chosen[3],
     price_change_percent |->
         code_price_change_percent(supplier_variant.price, base_price)]

code_match_chosen(code, supplier_variant, best_match, chosen, cfg, bracket_only) ==
    code_match_record(code, supplier_variant, best_match, chosen,
                      variant_base_price(best_match, cfg, bracket_only), bracket_only)

code_match_best(code, supplier_variant, base_variants, chosen, cfg, bracket_only) ==
    code_match_chosen(code, supplier_variant, base_variants[chosen[1]], chosen,
                      cfg, bracket_only)

code_match_info(code, supplier_variant, base_variants, cfg, bracket_only) ==
    code_match_best(code, supplier_variant, base_variants,
                    choose_variant(supplier_variant, base_variants), cfg, bracket_only)

\* the matches of one code: one per supplier variant when the base has it
matches_per_code(code, sv, bv, cfg, bracket_only) ==
    IF bv = <<>> THEN <<>>
    ELSE [j \in 1..Len(sv) |-> code_match_info(code, sv[j], bv, cfg, bracket_only)]

matches_of_codes(codes, supplier_variants, base_variants, cfg, bracket_only) ==
    flatten([k \in 1..Len(codes) |->
        matches_per_code(codes[k], code_group(supplier_variants, codes[k]),
                         code_group(base_variants, codes[k]), cfg, bracket_only)])

\* the matching loop: for every supplier code that the base has, one match
\* per supplier variant
code_matches_of(supplier_variants, base_variants, cfg, bracket_only) ==
    matches_of_codes(distinct_codes(supplier_variants), supplier_variants,
                     base_variants, cfg, bracket_only)

compare_by_bracket_codes_advanced(supplier_df, base_df, supplier_config, new_items_list) ==
    code_matches_of(
        supplier_code_variants(supplier_df, supplier_config, new_items_list, TRUE, 1),
        base_bracket_variants(base_df, 1),
        supplier_config, TRUE)

\* [failed, matches]: failed when the base loop raises
code_stage_outcome(base, supplier_df, supplier_config, new_items_list) ==
    IF base.failed THEN [failed |-> TRUE, matches |-> <<>>]
    ELSE [failed |-> FALSE,
          matches |-> code_matches_of(
              supplier_code_variants(supplier_df, supplier_config,
                                     new_items_list, FALSE, 1),
              base.variants, supplier_config, FALSE)]

compare_by_product_code_advanced(supplier_df, base_df, supplier_config, new_items_list) ==
    code_stage_outcome(
        base_code_variants(base_df, 1,
            [variants |-> <<>>, bound |-> FALSE,
             prices |-> <<NoPrice, NoPrice, NoPrice>>, failed |-> FALSE]),
        supplier_df, supplier_config, new_items_list)

\* ------------------------------------------------------------------------
\* Stage 4: compare_by_fuzzy_string_matching
\* ------------------------------------------------------------------------
\* pd.DataFrame(new_items): the rows carry the labels 0, 1, ... of a RangeIndex
data_frame(new_items) == [j \in 1..Len(new_items) |-> [idx |-> j - 1, item |-> new_items[j]]]

\* df.to_dict("records"): the rows without their labels
to_dict_records(df) == [j \in 1..Len(df) |-> df[j].item]

\* the keys of a record of unmatched_df: the keys of a new item and the three
\* columns perform_comparison adds
candidate_columns ==
    {"article", "price", "name", "color", "supplier_article", "base_article",
     "supplier_article_col", "base_article_col", "fuzzy_match_name",
     "fuzzy_match_row", "fuzzy_match_color", "fuzzy_match_price",
     "fuzzy_match_similarity", "search_status", "found_by", "similarity_score"}

\* candidate.get("index", 0)
candidate_index(candidate) ==
    IF "index" \in candidate_columns THEN candidate.index ELSE 0

\* candidate.get("price_usd", 0)
candidate_price_usd(candidate) ==
    IF "price_usd" \in candidate_columns THEN candidate.price_usd ELSE 0

\* the entry of base_names of a base row that has a name
fuzzy_base_name(row, i) ==
    IF pd_notna(row.name)
    THEN << [index |-> i - 1,
             name |-> str_strip(py_str(row.name)),
             price |-> row_get(row, "price"),
             article |-> row.article,
             color |-> safe_color_processing(row.color)] >>
    ELSE <<>>

\* the base rows that have a name, in row order
fuzzy_base_names(base_df) ==
    flatten([i \in 1..Len(base_df) |-> fuzzy_base_name(base_df[i], i)])

fuzzy_match_info(candidate, candidate_name, best_match, best_ratio) ==
    [supplier_index |-> candidate_index(candidate),
     supplier_name |-> candidate_name,
     supplier_price |-> candidate_price_usd(candidate),
     supplier_article |-> candidate.article,
     supplier_color |-> safe_color_processing(StrCell(candidate.color)),
     base_index |-> best_match.index,
     base_name |-> best_match.name,
     base_price |-> best_match.price,
     base_article |-> best_match.article,
     base_color |-> best_match.color,
     similarity_ratio |-> best_ratio,
     match_type |-> "fuzzy_string",
     matched_in |-> "name"]

\* the match of a candidate whose best base name is best[1] (0 = None)
fuzzy_candidate_match(candidate, candidate_name, base_names, best) ==
    IF best[1] # 0
    THEN <<fuzzy_match_info(candidate, candidate_name, base_names[best[1]], best[2])>>
    ELSE <<>>

fuzzy_name_match(candidate, candidate_name, base_names) ==
    fuzzy_candidate_match(candidate, candidate_name, base_names,
        best_fuzzy_match(candidate_name, base_names, 1, <<0, <<0, 1>> >>))

fuzzy_loop(fuzzy_candidates, base_names) ==
    flatten([c \in 1..Len(fuzzy_candidates) |->
        fuzzy_name_match(fuzzy_candidates[c],
                         str_strip(py_str(fuzzy_candidates[c].name)), base_names)])

compare_by_fuzzy_string_matching(fuzzy_candidates, base_df, supplier_config) ==
    IF fuzzy_candidates = <<>> THEN <<>>
    ELSE IF base_df = <<>> THEN <<>>
    ELSE fuzzy_loop(fuzzy_candidates, fuzzy_base_names(base_df))

\* ------------------------------------------------------------------------
\* perform_comparison: the pipeline as a state machine
\* ------------------------------------------------------------------------
VARIABLES
    current_config,   \* self.current_config
    supplier_df,      \* the supplier rows
    base_df,          \* the base rows
    pc,               \* position of perform_comparison
    matches,          \* article_results["matches"]
    price_changes,    \* article_results["price_changes"]
    new_items,        \* article_results["new_items"]
    supplier_dict,    \* article_results["supplier_dict"]
    base_dict,        \* article_results["base_dict"]
    unmatched_df,     \* the unmatched pool
    bracket_matches,
    code_matches,
    fuzzy_matches,
    result            \* the returned report

vars == <<current_config, supplier_df, base_df, pc, matches, price_changes,
          new_items, supplier_dict, base_dict, unmatched_df, bracket_matches,
          code_matches, fuzzy_matches, result>>

\* if found: unmatched_df[~unmatched_df["article"].isin(found_articles)]; the
\* values of the column are texts, so a row is dropped only by an equal text
narrow_by_articles(df, found) ==
    IF found # <<>>
    THEN SelectSeq(df, LAMBDA r : StrCell(r.item.article) \notin
                                      {found[j].supplier_article : j \in 1..Len(found)})
    ELSE df

\* if found: unmatched_df[~unmatched_df.index.isin(found_indices)]
narrow_by_indices(df, found) ==
    IF found # <<>>
    THEN SelectSeq(df, LAMBDA r : r.idx \notin
                                      {found[j].supplier_index : j \in 1..Len(found)})
    ELSE df

\* variant: the report gives the Stage 1 list as the remaining candidates
comparison_report_stage1_pool(s_dict, b_dict, ms, pcs, items, cms, bms, fms, df) ==
    [supplier_total |-> Len(s_dict),
     base_total |-> Len(b_dict),
     matches |-> ms,
     price_changes |-> pcs,
     new_items |-> items,
     code_matches |-> cms,
     bracket_matches |-> bms,
     fuzzy_matches |-> fms,
     fuzzy_candidates |-> items,
     unmatched_count |-> Len(items),
     match_rate |-> IF s_dict # <<>> THEN <<Len(ms) * 100, Len(s_dict)>> ELSE <<0, 1>>]

\* variant: the rate counts the matches of all four stages
comparison_report_rate_of_all(s_dict, b_dict, ms, pcs, items, cms, bms, fms, df) ==
    [supplier_total |-> Len(s_dict),
     base_total |-> Len(b_dict),
     matches |-> ms,
     price_changes |-> pcs,
     new_items |-> items,
     code_matches |-> cms,
     bracket_matches |-> bms,
     fuzzy_matches |-> fms,
     fuzzy_candidates |-> to_dict_records(df),
     unmatched_count |-> Len(df),
     match_rate |-> IF s_dict # <<>>
                    THEN <<(Len(ms) + Len(bms) + Len(cms) + Len(fms)) * 100, Len(s_dict)>>
                    ELSE <<0, 1>>]

\* the report perform_comparison returns
comparison_report(s_dict, b_dict, ms, pcs, items, cms, bms, fms, df) ==
    [supplier_total |-> Len(s_dict),
     base_total |-> Len(b_dict),
     matches |-> ms,
     price_changes |-> pcs,
     new_items |-> items,
     code_matches |-> cms,
     bracket_matches |-> bms,
     fuzzy_matches |-> fms,
     fuzzy_candidates |-> to_dict_records(df),
     unmatched_count |-> Len(df),
     match_rate |-> IF s_dict # <<>> THEN <<Len(ms) * 100, Len(s_dict)>> ELSE <<0, 1>>]

\* ------------------------------------------------------------------------
\* Inputs
\* ------------------------------------------------------------------------
txt_XM12 == <<"(","X","M","1","2",")">>
txt_xXM12 == <<"x","(","X","M","1","2",")">>
txt_OPPO == <<"O","P","P","O">>
txt_abc == <<"a","b","c">>
txt_abcx == <<"a","b","c","x">>
txt_Black == <<"B","l","a","c","k"," ">>
txt_black == <<"b","l","a","c","k">>
txt_wattage == <<" ","1","0","0","w">>
txt_C60 == <<" ","(","C","6","0",")">>
txt_60000mah == <<"6","0","0","0","0","m","a","h">>

SupplierRow(article, price, name, color) ==
    [article |-> article, price |-> price, name |-> name, color |-> color]

SupplierRows ==
    { SupplierRow(StrCell(<<"A","1">>), NumCell(12), StrCell(txt_XM12), StrCell(txt_Black)),
      SupplierRow(IntCell(<<"7">>), NumCell(12), StrCell(txt_XM12), NaN),
      SupplierRow(StrCell(<<"B","1">>), NumCell(22), StrCell(txt_OPPO), NaN),
      SupplierRow(StrCell(<<"A","1">>), NumCell(5), StrCell(txt_abc), NaN),
      SupplierRow(NaN, NumCell(5), StrCell(txt_abc), NaN),
      SupplierRow(StrCell(<<"A","1">>), NoPrice, StrCell(txt_OPPO), NaN) }

BaseRow(article, alt, name, color, price) ==
    [article |-> article, article_vitya |-> alt[1], article_dimi |-> alt[2],
     article_mila |-> alt[3], name |-> name, color |-> color,
     price |-> price, price_vitya_usd |-> price, price_dimi_usd |-> price,
     price_mila_usd |-> NoPrice]

same3(a) == <<a, a, a>>

BaseRows ==
    { BaseRow(StrCell(<<"B","1">>), same3(StrCell(<<"B","1">>)),
              StrCell(txt_xXM12), StrCell(txt_black), NumCell(20)),
      BaseRow(StrCell(<<"B","2">>), same3(StrCell(<<"B","2">>)),
              StrCell(txt_abcx), NaN, NumCell(20)),
      BaseRow(StrCell(<<"B","3">>), <<NaN, NaN, NaN>>,
              StrCell(txt_OPPO), NaN, NoPrice),
      BaseRow(StrCell(<<"B","4">>), <<NaN, StrCell(txt_XM12), NaN>>,
              NaN, NaN, NumCell(20)) }

\* the lists of at most n different rows of S
SeqsUpTo(S, n) ==
    {s \in UNION {[1..k -> S] : k \in 0..n} :
        \A i, j \in 1..Len(s) : i # j => s[i] # s[j]}

\* the sub-lists of a list (order kept)
RECURSIVE pick(_, _)
pick(list, keep) ==
    IF list = <<>> THEN <<>>
    ELSE (IF Len(list) \in keep THEN pick(SubSeq(list, 1, Len(list) - 1), keep)
                                      \o <<list[Len(list)]>>
          ELSE pick(SubSeq(list, 1, Len(list) - 1), keep))
SubLists(list) == {pick(list, keep) : keep \in SUBSET (1..Len(list))}

InitInputs ==
    /\ current_config \in Configs
    /\ supplier_df \in SeqsUpTo(SupplierRows, MaxSupplier)
    /\ base_df \in SeqsUpTo(BaseRows, MaxBase)

Init ==
    /\ InitInputs
    /\ pc = "AllSupplierRows"
    /\ matches = <<>> /\ price_changes = <<>> /\ new_items = <<>>
    /\ supplier_dict = <<>> /\ base_dict = <<>>
    /\ unmatched_df = <<>>
    /\ bracket_matches = <<>> /\ code_matches = <<>> /\ fuzzy_matches = <<>>
    /\ result = <<>>

inputs == <<current_config, supplier_df, base_df>>
stage1_vars == <<matches, price_changes, new_items, supplier_dict, base_dict>>

\* Stage 1 and the construction of unmatched_df
Stage1 ==
    /\ pc = "AllSupplierRows"
    /\ \E article_results \in {compare_by_articles(supplier_df, base_df, current_config)} :
           /\ matches' = article_results.matches
           /\ price_changes' = article_results.price_changes
           /\ new_items' = article_results.new_items
           /\ supplier_dict' = article_results.supplier_dict
           /\ base_dict' = article_results.base_dict
           /\ unmatched_df' = data_frame(article_results.new_items)
    /\ pc' = "Stage1Done"
    /\ UNCHANGED <<inputs, bracket_matches, code_matches, fuzzy_matches, result>>

\* variant: the items found are also taken out of the Stage 1 list
Stage2_narrowing_new_items ==
    /\ pc = "Stage1Done"
    /\ bracket_matches' = IF unmatched_df # <<>>
                          THEN compare_by_bracket_codes_advanced(supplier_df, base_df,
                                                                 current_config, new_items)
                          ELSE <<>>
    /\ unmatched_df' = narrow_by_articles(unmatched_df, bracket_matches')
    /\ new_items' = to_dict_records(unmatched_df')
    /\ pc' = "Stage2Done"
    /\ UNCHANGED <<inputs, matches, price_changes, supplier_dict, base_dict,
                   code_matches, fuzzy_matches, result>>

\* Stage 2 and the narrowing of the pool by the articles found
Stage2 ==
    /\ pc = "Stage1Done"
    /\ bracket_matches' = IF unmatched_df # <<>>
                          THEN compare_by_bracket_codes_advanced(supplier_df, base_df,
                                                                 current_config, new_items)
                          ELSE <<>>
    /\ unmatched_df' = narrow_by_articles(unmatched_df, bracket_matches')
    /\ pc' = "Stage2Done"
    /\ UNCHANGED <<inputs, stage1_vars, code_matches, fuzzy_matches, result>>

\* Stage 3 and the narrowing of the pool; the call may raise
Stage3 ==
    /\ pc = "Stage2Done"
    /\ \E outcome \in {IF unmatched_df # <<>>
                       THEN compare_by_product_code_advanced(supplier_df, base_df,
                                                             current_config, new_items)
                       ELSE [failed |-> FALSE, matches |-> <<>>]} :
           IF outcome.failed
           THEN /\ pc' = "Failed"
                /\ UNCHANGED <<code_matches, unmatched_df>>
           ELSE /\ code_matches' = outcome.matches
                /\ unmatched_df' = narrow_by_articles(unmatched_df, outcome.matches)
                /\ pc' = "Stage3Done"
    /\ UNCHANGED <<inputs, stage1_vars, bracket_matches, fuzzy_matches, result>>

\* Stage 4 and the narrowing of the pool by the indices found
Stage4 ==
    /\ pc = "Stage3Done"
    /\ fuzzy_matches' = IF unmatched_df # <<>>
                        THEN compare_by_fuzzy_string_matching(
                                 to_dict_records(unmatched_df), base_df, current_config)
                        ELSE <<>>
    /\ unmatched_df' = narrow_by_indices(unmatched_df, fuzzy_matches')
    /\ pc' = "Stage4Done"
    /\ UNCHANGED <<inputs, stage1_vars, bracket_matches, code_matches, result>>

\* the return statement
Finalize ==
    /\ pc = "Stage4Done"
    /\ result' = comparison_report(supplier_dict, base_dict, matches, price_changes,
                                   new_items, code_matches, bracket_matches,
                                   fuzzy_matches, unmatched_df)
    /\ pc' = "Finalized"
    /\ UNCHANGED <<inputs, stage1_vars, unmatched_df, bracket_matches, code_matches,
                   fuzzy_matches>>

Next == Stage1 \/ Stage2 \/ Stage3 \/ Stage4 \/ Finalize

Spec == Init /\ [][Next]_vars

\* ------------------------------------------------------------------------
\* Direct calls of the two code stages with an arbitrary new-items list
\* ------------------------------------------------------------------------
\* the new-item records that can be built from the supplier rows
all_items(df, cfg, base) == new_items_of(build_supplier_dict(df, cfg, 1, <<>>), base)

InitCalls ==
    /\ InitInputs
    /\ pc = "CallReady"
    /\ new_items \in SubLists(all_items(supplier_df, current_config, base_df))
    /\ matches = <<>> /\ price_changes = <<>>
    /\ supplier_dict = <<>> /\ base_dict = <<>>
    /\ unmatched_df = <<>>
    /\ bracket_matches = <<>> /\ code_matches = <<>> /\ fuzzy_matches = <<>>
    /\ result = <<>>

CallBracket ==
    /\ pc = "CallReady"
    /\ bracket_matches' = compare_by_bracket_codes_advanced(supplier_df, base_df,
                                                            current_config, new_items)
    /\ pc' = "BracketCalled"
    /\ UNCHANGED <<inputs, stage1_vars, unmatched_df, code_matches, fuzzy_matches, result>>

CallCode ==
    /\ pc = "CallReady"
    /\ \E outcome \in {compare_by_product_code_advanced(supplier_df, base_df,
                                                         current_config, new_items)} :
           /\ code_matches' = outcome.matches
           /\ pc' = IF outcome.failed THEN "CodeRaised" ELSE "CodeCalled"
    /\ UNCHANGED <<inputs, stage1_vars, unmatched_df, bracket_matches, fuzzy_matches, result>>

NextCalls == CallBracket \/ CallCode

SpecCalls == InitCalls /\ [][NextCalls]_vars

\* ------------------------------------------------------------------------
\* Direct calls of the extractors and of the colour normalizer on one cell:
\* a missing cell, or a text made of at most MaxTokens tokens
\* ------------------------------------------------------------------------
CodeTokens ==
    { <<" ">>, txt_XM12, <<"(","a","b",")">>, txt_OPPO, <<"X","M","1","2","3">>,
      <<"A","1","2">>, <<"(","CYR_M","CYR_A","CYR_CH","CYR_S",")">>,
      <<"("," ","x","-","1","2"," ",")">> }

CapacityTokens ==
    { txt_60000mah, txt_wattage, txt_C60, <<"3">>, <<"9","9","9","9","9">>, <<" ">>,
      <<"M","A","H">>, <<"cyr_m","cyr_ch">> }

ColorTokens ==
    { <<" ">>, <<"n","a","n">>, <<"N","o","n","e">>, <<"N","A","N">>,
      <<"B","l","a","c","k">>, <<"b">> }

WordTokens == { <<" ">>, <<" "," ">>, <<"a">>, <<"b","c">> }

texts_of(tokens) ==
    {flatten(s) : s \in UNION {[1..k -> tokens] : k \in 0..MaxTokens}}

InputCells ==
    {NaN, None}
    \cup {StrCell(t) : t \in texts_of(CodeTokens) \cup texts_of(CapacityTokens)
                                \cup texts_of(ColorTokens)
                                \cup texts_of(WordTokens)}

InitNames ==
    /\ current_config = "auto"
    /\ \E cell \in InputCells : supplier_df = <<SupplierRow(NaN, NoPrice, cell, cell)>>
    /\ base_df = <<>>
    /\ pc = "CellReady"
    /\ matches = <<>> /\ price_changes = <<>> /\ new_items = <<>>
    /\ supplier_dict = <<>> /\ base_dict = <<>>
    /\ unmatched_df = <<>>
    /\ bracket_matches = <<>> /\ code_matches = <<>> /\ fuzzy_matches = <<>>
    /\ result = <<>>

call_vars == <<inputs, stage1_vars, unmatched_df, bracket_matches, code_matches,
               fuzzy_matches>>

CallBrackets ==
    /\ pc = "CellReady"
    /\ result' = [call |-> "find_product_code_in_brackets",
                  value |-> find_product_code_in_brackets(supplier_df[1].name)]
    /\ pc' = "Returned"
    /\ UNCHANGED call_vars

CallUnified ==
    /\ pc = "CellReady"
    /\ result' = [call |-> "find_product_code_unified",
                  value |-> find_product_code_unified(supplier_df[1].name)]
    /\ pc' = "Returned"
    /\ UNCHANGED call_vars

CallCapacity ==
    /\ pc = "CellReady"
    /\ result' = [call |-> "find_battery_capacity",
                  value |-> find_battery_capacity(supplier_df[1].name)]
    /\ pc' = "Returned"
    /\ UNCHANGED call_vars

CallColor ==
    /\ pc = "CellReady"
    /\ result' = [call |-> "safe_color_processing",
                  value |-> safe_color_processing(supplier_df[1].color)]
    /\ pc' = "Returned"
    /\ UNCHANGED call_vars

\* the colour returned is normalized once more
CallColorAgain ==
    /\ pc = "Returned"
    /\ result.call = "safe_color_processing"
    /\ result' = [call |-> "safe_color_processing again",
                  first |-> result.value,
                  value |-> safe_color_processing(StrCell(result.value))]
    /\ pc' = "ReturnedAgain"
    /\ UNCHANGED call_vars

CallClean ==
    /\ pc = "CellReady"
    /\ result' = [call |-> "clean_invisible_chars",
                  value |-> clean_invisible_chars(supplier_df[1].name)]
    /\ pc' = "Returned"
    /\ UNCHANGED call_vars

NextNames ==
    CallBrackets \/ CallUnified \/ CallCapacity \/ CallColor \/ CallColorAgain
        \/ CallClean

SpecNames == InitNames /\ [][NextNames]_vars

\* ------------------------------------------------------------------------
\* perform_comparison on one supplier row and at most MaxVariants base rows
\* of the same code, with and without a colour and a capacity; the code is
\* a bracket code (found by Stage 2) or a brand (found by Stage 3)
\* ------------------------------------------------------------------------
VariantRows(name) ==
    { BaseRow(StrCell(<<"B","1">>), same3(StrCell(<<"B","1">>)),
              StrCell(name \o capacity), color, NumCell(MaxPrice)) :
          capacity \in {<<>>, txt_60000mah},
          color \in {NaN, StrCell(txt_black)} }

InitVariants ==
    /\ current_config \in Configs
    /\ \E names \in { <<txt_XM12, txt_xXM12>>, <<txt_OPPO, txt_OPPO>> } :
           /\ \E capacity \in {<<>>, txt_60000mah}, color \in {NaN, StrCell(txt_Black)} :
                  supplier_df = <<SupplierRow(StrCell(<<"A","1">>), NumCell(MaxPrice),
                                              StrCell(names[1] \o capacity), color)>>
           /\ base_df \in SeqsUpTo(VariantRows(names[2]), MaxVariants)
    /\ pc = "AllSupplierRows"
    /\ matches = <<>> /\ price_changes = <<>> /\ new_items = <<>>
    /\ supplier_dict = <<>> /\ base_dict = <<>>
    /\ unmatched_df = <<>>
    /\ bracket_matches = <<>> /\ code_matches = <<>> /\ fuzzy_matches = <<>>
    /\ result = <<>>

SpecVariants == InitVariants /\ [][Next]_vars

\* ------------------------------------------------------------------------
\* perform_comparison on a supplier row and a base row of every price; the
\* supplier sheet may have a second row of the same article without a price
\* ------------------------------------------------------------------------
\* a price cell: a number of 0..MaxPrice or a missing value
PriceCells == {NumCell(n) : n \in 0..MaxPrice} \cup {NoPrice}

\* the names of the supplier row and of the base row: a shared bracket code,
\* a shared brand, similar names without a code
NamePairs == { <<txt_XM12, txt_xXM12>>, <<txt_OPPO, txt_OPPO>>, <<txt_abc, txt_abcx>> }

InitPrices ==
    /\ current_config \in Configs
    /\ \E article \in { <<"A","1">>, <<"B","1">> }, names \in NamePairs :
           /\ \E price \in PriceCells, rest \in SeqsUpTo({NoPrice}, 1) :
                  supplier_df =
                      <<SupplierRow(StrCell(article), price, StrCell(names[1]), NaN)>>
                      \o [k \in 1..Len(rest) |->
                             SupplierRow(StrCell(article), rest[k], StrCell(names[1]), NaN)]
           /\ \E price \in PriceCells :
                  base_df = <<BaseRow(StrCell(<<"B","1">>), same3(StrCell(<<"B","1">>)),
                                      StrCell(names[2]), NaN, price)>>
    /\ pc = "AllSupplierRows"
    /\ matches = <<>> /\ price_changes = <<>> /\ new_items = <<>>
    /\ supplier_dict = <<>> /\ base_dict = <<>>
    /\ unmatched_df = <<>>
    /\ bracket_matches = <<>> /\ code_matches = <<>> /\ fuzzy_matches = <<>>
    /\ result = <<>>

SpecPrices == InitPrices /\ [][Next]_vars

\* ------------------------------------------------------------------------
\* Properties
\* ------------------------------------------------------------------------
\* the supplier records (by article key) claimed by each category
article_claimed == {matches[j].article : j \in 1..Len(matches)}
bracket_claimed == {py_str(bracket_matches[j].supplier_article) : j \in 1..Len(bracket_matches)}
code_claimed == {py_str(code_matches[j].supplier_article) : j \in 1..Len(code_matches)}
fuzzy_claimed == {fuzzy_matches[j].supplier_article : j \in 1..Len(fuzzy_matches)}
final_unmatched == {result.fuzzy_candidates[j].article : j \in 1..Len(result.fuzzy_candidates)}
pool_articles(df) == {df[j].item.article : j \in 1..Len(df)}

disjoint(A, B) == A \cap B = {}

\* C1: after perform_comparison has finished, no supplier record is in more
\* than one of the article matches, the bracket-code matches, the
\* generic-code matches, the fuzzy matches and the final unmatched list.
C1_AtMostOneCategory ==
    pc = "Finalized" =>
        /\ disjoint(article_claimed, bracket_claimed \cup code_claimed \cup fuzzy_claimed \cup final_unmatched)
        /\ disjoint(bracket_claimed, code_claimed \cup fuzzy_claimed \cup final_unmatched)
        /\ disjoint(code_claimed, fuzzy_claimed \cup final_unmatched)
        /\ disjoint(fuzzy_claimed, final_unmatched)

\* C2: after perform_comparison has finished, every supplier record of the
\* Stage 1 mapping is in at least one of the five categories; a record no
\* stage matched is in the final unmatched list.
C2_NoRecordLost ==
    pc = "Finalized" =>
        \A j \in 1..Len(supplier_dict) :
            supplier_dict[j].article \in
                article_claimed \cup bracket_claimed \cup code_claimed
                \cup fuzzy_claimed \cup final_unmatched

\* C3: a supplier item for which Stage 2 emitted a bracket-code match is
\* never given a generic-code match by Stage 3.
C3_Stage3OnlyRemainingPool ==
    pc \in {"Stage3Done", "Stage4Done", "Finalized"} =>
        disjoint(bracket_claimed, code_claimed)

\* C4: Stage 4 leaves in the pool exactly the items that entered it and got
\* no fuzzy match.
C4_Stage4Narrowing ==
    [][ (pc = "Stage3Done" /\ pc' = "Stage4Done") =>
          /\ pool_articles(unmatched_df') \subseteq pool_articles(unmatched_df)
          /\ \A j \in 1..Len(unmatched_df) :
                LET article == unmatched_df[j].item.article
                    has_fuzzy == \E k \in 1..Len(fuzzy_matches') :
                                     fuzzy_matches'[k].supplier_article = article
                IN  (article \in pool_articles(unmatched_df')) <=> ~has_fuzzy ]_vars

\* C5 (as claimed): in the report, new_items is the final unmatched pool and
\* unmatched_count is the number of its items.
C5_NewItemsIsFinalPool ==
    pc = "Finalized" =>
        /\ result.new_items = to_dict_records(unmatched_df)
        /\ result.unmatched_count = Len(result.new_items)

\* C5 (amended): in the report, fuzzy_candidates is the final unmatched pool
\* and unmatched_count is the number of its items; new_items is the list of
\* provisional new items of Stage 1, which contains every item of the pool.
C5_FuzzyCandidatesIsFinalPool ==
    pc = "Finalized" =>
        /\ result.fuzzy_candidates = to_dict_records(unmatched_df)
        /\ result.unmatched_count = Len(result.fuzzy_candidates)
        /\ result.new_items = new_items
        /\ \A j \in 1..Len(result.fuzzy_candidates) :
               \E k \in 1..Len(result.new_items) :
                   result.new_items[k] = result.fuzzy_candidates[j]

\* a report whose final pool is shorter than the Stage 1 list and not empty
C5_Witness ==
    /\ pc = "Finalized"
    /\ result.unmatched_count >= 1
    /\ result.unmatched_count < Len(result.new_items)

\* the narrowing a code stage is claimed to do: the items of the pool with a
\* match of this stage, and only they, leave the pool
narrowed_by(df, df_after, stage_matches) ==
    /\ pool_articles(df_after) \subseteq pool_articles(df)
    /\ \A j \in 1..Len(df) :
          LET article == df[j].item.article
              claimed == \E k \in 1..Len(stage_matches) :
                             py_str(stage_matches[k].supplier_article) = article
          IN  (article \in pool_articles(df_after)) <=> ~claimed

\* C6: leaving Stage 2 and leaving Stage 3, the pool loses exactly the items
\* the stage matched, for text article keys and for integer article keys.
C6_CodeStagesNarrowing ==
    [][ /\ (pc = "Stage1Done" /\ pc' = "Stage2Done") =>
              narrowed_by(unmatched_df, unmatched_df', bracket_matches')
        /\ (pc = "Stage2Done" /\ pc' = "Stage3Done") =>
              narrowed_by(unmatched_df, unmatched_df', code_matches') ]_vars

\* C7: a supplier row without article, whose name yields no code and is at
\* least TRSH-similar to the name of a base row, is reported as a fuzzy match
\* with similarity_ratio >= TRSH.
C7_NoArticleRowFuzzyMatched ==
    pc = "Finalized" =>
        \A i \in 1..Len(supplier_df) :
            LET row == supplier_df[i]
                name == str_strip(py_str(row.name))
                similar == \E b \in 1..Len(base_df) :
                    /\ pd_notna(base_df[b].name)
                    /\ ratio_ge(sequence_matcher_ratio(
                                    str_lower(name),
                                    str_lower(str_strip(py_str(base_df[b].name)))), TRSH)
            IN  (/\ pd_isna(row.article) /\ pd_notna(row.name)
                 /\ find_product_code_unified(row.name) = None
                 /\ similar)
                => \E k \in 1..Len(fuzzy_matches) :
                       /\ fuzzy_matches[k].supplier_name = name
                       /\ ratio_ge(fuzzy_matches[k].similarity_ratio, TRSH)

\* the bracket codes found on the base side
base_bracket_codes ==
    LET bv == base_bracket_variants(base_df, 1) IN {bv[j].code : j \in 1..Len(bv)}

\* C8: for every configuration, Stage 2 emits exactly one bracket-code match
\* for every supplier row of the provisional-new-items pool whose name has a
\* bracket code that the base side has too: for every article key of the
\* pool, as many matches as there are such rows with this key.
C8_Stage2MatchesEveryBracketCode ==
    (pc = "Stage2Done" /\ new_items # <<>>) =>
        \A key \in new_articles_set(new_items) :
            LET rows == {i \in 1..Len(supplier_df) :
                            LET row == supplier_df[i]
                                code == find_product_code_in_brackets(row.name)
                            IN  /\ pd_notna(row.article) /\ pd_notna(row.price)
                                /\ article_key(current_config, row.article) = key
                                /\ truthy(code) /\ code.v \in base_bracket_codes}
                found == {k \in 1..Len(bracket_matches) :
                             py_str(bracket_matches[k].supplier_article) = key}
            IN  Cardinality(found) = Cardinality(rows)

\* C9: called directly with any new-items list, the empty one included,
\* neither code stage emits a match for a supplier row whose article is not
\* in the list.
C9_OnlyListedArticlesMatched ==
    /\ pc = "BracketCalled" => bracket_claimed \subseteq new_articles_set(new_items)
    /\ pc = "CodeCalled" => code_claimed \subseteq new_articles_set(new_items)

\* C10: Stage 1 puts every key of the supplier mapping in exactly one of the
\* article matches and the provisional new items: in the matches iff the base
\* mapping has the key; so len(matches) + len(new_items) = supplier_total.
C10_Stage1Partition ==
    pc # "AllSupplierRows" =>
        /\ \A j \in 1..Len(supplier_dict) :
              LET key == supplier_dict[j].article
                  in_matches == {k \in 1..Len(matches) : matches[k].article = key}
                  in_new == {k \in 1..Len(new_items) : new_items[k].article = key}
              IN  /\ Cardinality(in_matches) + Cardinality(in_new) = 1
                  /\ (in_matches # {}) <=> dict_has(base_dict, key)
        /\ article_claimed \cup new_articles_set(new_items)
               \subseteq {supplier_dict[j].article : j \in 1..Len(supplier_dict)}
        /\ Len(matches) + Len(new_items) = Len(supplier_dict)
        /\ pc = "Finalized" =>
               Len(result.matches) + Len(result.new_items) = result.supplier_total

\* Stage 1 has run on a mapping with a key the base has and a key it lacks
C10_Witness ==
    /\ pc = "Stage1Done"
    /\ Len(matches) >= 1
    /\ Len(new_items) >= 1

\* the percentage pct = <<numerator, denominator>> is above 5 in absolute value
above_five_percent(pct) == pct[2] > 0 /\ abs(pct[1]) > 5 * pct[2]

\* C11: price_changes is exactly the list of the article matches whose
\* |price_change_percent| is strictly above 5: a match at 0% or at exactly 5%
\* is in matches only, and price_changes holds nothing but article matches.
C11_PriceChangesAreTheSignificantMatches ==
    pc # "AllSupplierRows" =>
        /\ price_changes =
               SelectSeq(matches, LAMBDA m : above_five_percent(m.price_change_percent))
        /\ \A j \in 1..Len(matches) :
               matches[j].price_change_percent =
                   IF matches[j].base_price > 0
                   THEN <<(matches[j].supplier_price - matches[j].base_price) * 100,
                          matches[j].base_price>>
                   ELSE <<0, 1>>
        /\ pc = "Finalized" =>
               /\ result.price_changes = price_changes
               /\ result.matches = matches

\* an article match at exactly 5 percent that is not a price change
C11_Witness ==
    /\ pc = "Stage1Done"
    /\ price_changes = <<>>
    /\ \E j \in 1..Len(matches) :
           /\ matches[j].base_price > 0
           /\ 100 * (matches[j].supplier_price - matches[j].base_price)
                  = 5 * matches[j].base_price

\* ------------------------------------------------------------------------
\* perform_comparison on names whose similarity is at, below or above TRSH:
\* two names of TRSH_DEN characters that share their first k characters and
\* nothing else have the ratio 2k / (2 * TRSH_DEN), which is TRSH at
\* k = TRSH_NUM; the names are made of words of two letters, and the base
\* may have an unrelated row first
\* ------------------------------------------------------------------------
CommonLens == (TRSH_NUM - MaxOff)..(TRSH_NUM + MaxOff)

name_sharing(k, tail, sep) ==
    [i \in 1..TRSH_DEN |-> IF i <= k THEN (IF i % 3 = 0 THEN " " ELSE "x")
                           ELSE (IF i % 3 = 0 THEN sep ELSE tail)]

InitThreshold ==
    /\ current_config \in Configs
    /\ \E k \in CommonLens, other \in SeqsUpTo({StrCell(txt_OPPO)}, 1) :
           /\ supplier_df = <<SupplierRow(StrCell(<<"A","1">>), NumCell(MaxPrice),
                                          StrCell(name_sharing(k, "y", ",")), NaN)>>
           /\ base_df =
                  [j \in 1..Len(other) |->
                      BaseRow(StrCell(<<"B","2">>), same3(StrCell(<<"B","2">>)),
                              other[j], NaN, NoPrice)]
                  \o <<BaseRow(StrCell(<<"B","1">>), same3(StrCell(<<"B","1">>)),
                               StrCell(name_sharing(k, "z", ".")), NaN,
                               NumCell(MaxPrice))>>
    /\ pc = "AllSupplierRows"
    /\ matches = <<>> /\ price_changes = <<>> /\ new_items = <<>>
    /\ supplier_dict = <<>> /\ base_dict = <<>>
    /\ unmatched_df = <<>>
    /\ bracket_matches = <<>> /\ code_matches = <<>> /\ fuzzy_matches = <<>>
    /\ result = <<>>

SpecThreshold == InitThreshold /\ [][Next]_vars

\* the records of Stages 1 to 3, which carry price_change_percent
percent_records == matches \o bracket_matches \o code_matches

\* C12: in every match record of every stage, base_price = 0 gives
\* price_change_percent = 0 exactly, and the percentage is a finite number
\* (never nan or infinite): a record of Stage 4 has one too.
C12_ZeroBasePriceZeroPercent ==
    /\ \A j \in 1..Len(percent_records) :
           /\ percent_records[j].base_price = 0
                  => percent_records[j].price_change_percent = <<0, 1>>
           /\ percent_records[j].price_change_percent[2] # 0
    /\ \A j \in 1..Len(fuzzy_matches) :
           "price_change_percent" \in DOMAIN fuzzy_matches[j]

sign(n) == IF n > 0 THEN 1 ELSE IF n < 0 THEN -1 ELSE 0

\* a percentage that is a number of the sign of the difference diff
same_sign(pct, diff) == pct[2] > 0 /\ sign(pct[1]) = sign(diff)

\* C13: every match record of every stage has price_diff = supplier_price -
\* base_price, and when base_price > 0 its price_change_percent is positive,
\* negative or zero together with price_diff.
C13_PriceDiffAndPercentSign ==
    /\ \A j \in 1..Len(matches) :
           /\ matches[j].price_diff = matches[j].supplier_price - matches[j].base_price
           /\ matches[j].base_price > 0
                  => same_sign(matches[j].price_change_percent, matches[j].price_diff)
    /\ \A j \in 1..Len(bracket_matches \o code_matches) :
           /\ (bracket_matches \o code_matches)[j].base_price > 0
                  => /\ pd_notna((bracket_matches \o code_matches)[j].supplier_price)
                     /\ same_sign((bracket_matches \o code_matches)[j].price_change_percent,
                                  (bracket_matches \o code_matches)[j].supplier_price.v
                                      - (bracket_matches \o code_matches)[j].base_price)
           /\ "price_diff" \in DOMAIN (bracket_matches \o code_matches)[j]
    /\ \A j \in 1..Len(fuzzy_matches) :
           {"price_diff", "price_change_percent"} \subseteq DOMAIN fuzzy_matches[j]

\* a similarity of exactly TRSH
equals_TRSH(ratio) == ratio[1] * TRSH_DEN = TRSH_NUM * ratio[2]

\* some base row has a name whose similarity to supplier_name is exactly TRSH
at_threshold(supplier_name, base) ==
    \E i \in 1..Len(base) :
        /\ pd_notna(base[i].name)
        /\ equals_TRSH(sequence_matcher_ratio(str_lower(supplier_name),
                            str_lower(str_strip(py_str(base[i].name)))))

returned(call) ==
    pc = "Returned" /\ result.call = call /\ supplier_df[1].name.t = "str"

\* value is what the priority bracket code, brand, generic code gives
unified_by_priority(value, bracket_code, brands_held, name_code) ==
    IF truthy(bracket_code) THEN value = bracket_code
    ELSE IF brands_held # {} THEN \E i \in brands_held : value = StrCell(brands[i])
    ELSE IF truthy(name_code) /\ Len(name_code.v) >= 4 THEN value = name_code
    ELSE value = None

brands_in(name_upper) == {i \in 1..Len(brands) : str_contains(name_upper, brands[i])}

\* C15: find_product_code_unified returns the bracketed code when the name
\* has a qualifying one, else a brand the name contains, else the generic code,
\* and not found when none of the three succeeds.
C15_UnifiedPriority ==
    returned("find_product_code_unified")
        => unified_by_priority(result.value,
               find_product_code_in_brackets(supplier_df[1].name),
               brands_in(str_upper(supplier_df[1].name.v)),
               find_product_code_in_name(supplier_df[1].name))

\* the bracketed code was returned for a name that also has a brand and a
\* generic code
C15_Witness ==
    /\ returned("find_product_code_unified")
    /\ truthy(find_product_code_in_brackets(supplier_df[1].name))
    /\ brands_in(str_upper(supplier_df[1].name.v)) # {}
    /\ truthy(find_product_code_in_name(supplier_df[1].name))
    /\ result.value = find_product_code_in_brackets(supplier_df[1].name)

\* re.findall(r"\(([^)]+)\)", s): the parenthesized groups of s from p on
RECURSIVE bracket_groups(_, _)
bracket_groups(s, p) ==
    IF p > Len(s) THEN <<>>
    ELSE IF s[p] = "(" /\ next_close(s, p) >= p + 2
         THEN <<SubSeq(s, p + 1, next_close(s, p) - 1)>>
              \o bracket_groups(s, next_close(s, p) + 1)
         ELSE bracket_groups(s, p + 1)

\* only Latin letters, digits and hyphens, at least 4 characters
latin_code(code) ==
    Len(code) >= 4 /\ \A i \in 1..Len(code) : code[i] \in AZ09Chars \cup {"-"}

first_latin_code(codes, good) == IF good = {} THEN None ELSE StrCell(codes[SetMin(good)])

first_qualifying(codes) ==
    first_latin_code(codes, {i \in 1..Len(codes) : latin_code(codes[i])})

\* C16: find_product_code_in_brackets returns the stripped, upper-cased
\* content of the first parenthesized group that consists of Latin letters,
\* digits and hyphens only and has at least 4 characters, and no code only
\* when no group of the name qualifies.
C16_FirstQualifyingGroup ==
    returned("find_product_code_in_brackets")
        => result.value =
               first_qualifying([i \in 1..Len(bracket_groups(supplier_df[1].name.v, 1)) |->
                   str_upper(str_strip(bracket_groups(supplier_df[1].name.v, 1)[i]))])

\* C17: a code returned by the bracket extractor or by the unified extractor
\* is a text of at least 4 characters, and "nothing found" is the absent
\* value None, never an empty text.
C17_CodeHasFourCharacters ==
    (pc = "Returned" /\ result.call \in {"find_product_code_in_brackets",
                                          "find_product_code_unified"})
        => \/ result.value = None
           \/ result.value.t = "str" /\ Len(result.value.v) >= 4

\* the unified extractor found nothing in a name whose only code is shorter
\* than 4 characters
C17_Witness ==
    /\ returned("find_product_code_unified")
    /\ truthy(find_product_code_in_name(supplier_df[1].name))
    /\ Len(find_product_code_in_name(supplier_df[1].name).v) < 4
    /\ result.value = None

\* the digits c stand in s and are followed, after blanks or at once, by a unit
followed_by_unit(s, c) ==
    \E p \in 1..Len(s), q \in 1..(Len(s) + 1) :
        /\ q >= p + Len(c)
        /\ SubSeq(s, p, p + Len(c) - 1) = c
        /\ \A i \in (p + Len(c))..(q - 1) : s[i] = " "
        /\ \E k \in 1..Len(capacity_units) :
               /\ q + Len(capacity_units[k]) - 1 <= Len(s)
               /\ SubSeq(s, q, q + Len(capacity_units[k]) - 1) = capacity_units[k]

capacity_claimed(value, name_lower) ==
    \/ value = None
    \/ /\ value.t = "str" /\ value.v # <<>>
       /\ \A i \in 1..Len(value.v) : value.v[i] \in DigitChars
       /\ py_int(value.v) >= 5 /\ py_int(value.v) <= 999999
       /\ followed_by_unit(name_lower, value.v)

C20_ColorIdempotent ==
    pc = "ReturnedAgain" => result.value = result.first

\* a padded colour with a capital has been normalized twice
C20_Witness ==
    /\ pc = "ReturnedAgain"
    /\ supplier_df[1].color = StrCell(<<" ","B","l","a","c","k"," ">>)
    /\ result.first = <<"b","l","a","c","k">>
    /\ result.value = result.first

\* the code of a base name as the stage of the match type reads it
stage_code(match_type, name) ==
    IF match_type = "bracket_code" THEN find_product_code_in_brackets(name)
    ELSE find_product_code_unified(name)

\* the claimed choice in the group G of base rows, of which those in C have
\* the colour of the supplier item and those in K its capacity
claimed_variant(G, C, K) ==
    IF G \cap C \cap K # {} THEN SetMin(G \cap C \cap K)
    ELSE IF G \cap C # {} THEN SetMin(G \cap C)
    ELSE IF G \cap K # {} THEN SetMin(G \cap K)
    ELSE SetMin(G)

claimed_row(m) ==
    claimed_variant(
        {i \in 1..Len(base_df) : stage_code(m.match_type, base_df[i].name) = StrCell(m.code)},
        {i \in 1..Len(base_df) : safe_color_processing(base_df[i].color) = m.supplier_color},
        {i \in 1..Len(base_df) : find_battery_capacity(base_df[i].name) = m.supplier_capacity})

\* C19: the base row of a match of Stage 2 or 3 is the first row of the
\* group with the colour and the capacity of the supplier item, else the
\* first with its colour, else the first with its capacity, else the first
\* row of the group; an item gets one match of a stage at most, the stage
\* does not fail, and an item the stages read gets a match when the group is
\* not empty.
C19_VariantChoice ==
    /\ \A j \in 1..Len(bracket_matches \o code_matches) :
           (bracket_matches \o code_matches)[j].base_index + 1
               = claimed_row((bracket_matches \o code_matches)[j])
    /\ Len(bracket_matches) <= 1 /\ Len(code_matches) <= 1
    /\ pc # "Failed"
    /\ (pc \in {"Stage3Done", "Stage4Done", "Finalized"}
           /\ current_config # "auto" /\ base_df # <<>>)
          => Len(bracket_matches) + Len(code_matches) = 1

\* Stage 3 chose by colour alone the third row of a group whose first row
\* has the capacity of the item only
C19_Witness ==
    /\ pc = "Stage3Done"
    /\ Len(base_df) = 3
    /\ Len(code_matches) = 1
    /\ code_matches[1].base_index = 2
    /\ code_matches[1].color_match /\ ~code_matches[1].capacity_match
    /\ find_battery_capacity(base_df[1].name) = code_matches[1].supplier_capacity

\* the positions of s where a word starts, and where the word starting at p
\* ends
word_starts(s) == {i \in 1..Len(s) : s[i] # " " /\ (i = 1 \/ s[i - 1] = " ")}
word_stop(s, p) == SetMin({e \in p..Len(s) : e = Len(s) \/ s[e + 1] = " "})

\* r is the words of s, in order, with one space between two of them
RECURSIVE words_rejoined(_, _, _)
words_rejoined(s, starts, r) ==
    IF starts = {} THEN r = <<>>
    ELSE \E w \in {SubSeq(s, SetMin(starts), word_stop(s, SetMin(starts)))} :
           /\ Len(r) >= Len(w)
           /\ SubSeq(r, 1, Len(w)) = w
           /\ IF starts = {SetMin(starts)} THEN Len(r) = Len(w)
              ELSE /\ Len(r) > Len(w) + 1
                   /\ r[Len(w) + 1] = " "
                   /\ words_rejoined(s, starts \ {SetMin(starts)},
                                      SubSeq(r, Len(w) + 2, Len(r)))

\* C21: clean_invisible_chars always returns a text: the empty text for a
\* missing input, and for any other input its words rejoined with single
\* spaces.
C21_AlwaysReturnsText ==
    (pc = "Returned" /\ result.call = "clean_invisible_chars")
        => /\ result.value.t = "str"
           /\ IF pd_isna(supplier_df[1].name) THEN result.value.v = <<>>
              ELSE words_rejoined(supplier_df[1].name.v,
                                  word_starts(supplier_df[1].name.v), result.value.v)

\* the part of C21 that the code keeps: a text with at least one word comes
\* back as its words rejoined with single spaces
C21_WordsRejoined ==
    (/\ pc = "Returned" /\ result.call = "clean_invisible_chars"
     /\ pd_notna(supplier_df[1].name)
     /\ word_starts(supplier_df[1].name.v) # {})
        => /\ result.value.t = "str"
           /\ words_rejoined(supplier_df[1].name.v,
                             word_starts(supplier_df[1].name.v), result.value.v)

\* ------------------------------------------------------------------------
\* perform_comparison on datasets one of which lacks a configured column.
\* A row is a record of the columns of its sheet; the fields article and
\* price of a supplier row are the cells of the configured supplier columns.
\* ------------------------------------------------------------------------
without_column(df, col) ==
    [i \in 1..Len(df) |-> [f \in DOMAIN df[i] \ {col} |-> df[i][f]]]

\* the columns of subset that the sheet does not have
missing_columns(df, subset) == IF df = <<>> THEN {} ELSE subset \ DOMAIN df[1]

\* supplier_df.dropna(subset=[supplier_article_col, supplier_price_col]) and
\* base_df.dropna(subset=[base_article_col]) raise KeyError for a column
\* that the sheet does not have
dropna_raises(supplier, base, cfg) ==
    \/ missing_columns(supplier, {"article", "price"}) # {}
    \/ missing_columns(base, {get_base_article_column(cfg)}) # {}

Droppable == {"supplier article", "supplier price", "base article", "base price"}

InitFields ==
    /\ current_config \in Configs
    /\ \E s \in SeqsUpTo(SupplierRows, MaxSupplier), b \in SeqsUpTo(BaseRows, MaxBase),
          drop \in Droppable :
           /\ s # <<>> /\ b # <<>>
           /\ supplier_df = (IF drop = "supplier article" THEN without_column(s, "article")
                             ELSE IF drop = "supplier price" THEN without_column(s, "price")
                             ELSE s)
           /\ base_df = (IF drop = "base article"
                         THEN without_column(b, get_base_article_column(current_config))
                         ELSE IF drop = "base price"
                         THEN without_column(b, get_base_price_column(current_config))
                         ELSE b)
    /\ pc = "AllSupplierRows"
    /\ matches = <<>> /\ price_changes = <<>> /\ new_items = <<>>
    /\ supplier_dict = <<>> /\ base_dict = <<>>
    /\ unmatched_df = <<>>
    /\ bracket_matches = <<>> /\ code_matches = <<>> /\ fuzzy_matches = <<>>
    /\ result = <<>>

\* Stage 1 on sheets that have the columns
Stage1Checked ==
    /\ ~dropna_raises(supplier_df, base_df, current_config)
    /\ Stage1

\* the KeyError of dropna leaves perform_comparison: nothing catches it there
Stage1KeyError ==
    /\ pc = "AllSupplierRows"
    /\ dropna_raises(supplier_df, base_df, current_config)
    /\ pc' = "Raised"
    /\ result' = [raised |-> "KeyError"]
    /\ UNCHANGED <<inputs, stage1_vars, unmatched_df, bracket_matches, code_matches,
                   fuzzy_matches>>

NextFields == Stage1Checked \/ Stage1KeyError \/ Stage2 \/ Stage3 \/ Stage4 \/ Finalize

SpecFields == InitFields /\ [][NextFields]_vars

\* a configured article or price column is absent from its sheet
field_absent ==
    \/ missing_columns(supplier_df, {"article", "price"}) # {}
    \/ missing_columns(base_df, {get_base_article_column(current_config),
                                 get_base_price_column(current_config)}) # {}

\* C22: when a configured supplier or base article/price field is absent,
\* perform_comparison neither raises nor returns an ordinary report: what it
\* returns carries an error indication.
C22_StructuredError ==
    field_absent
        => /\ pc \notin {"Raised", "Failed"}
           /\ pc = "Finalized" => "error" \in DOMAIN result

\* what the code does instead: an absent supplier column or base article
\* column raises, an absent base price column gives an ordinary report
C22_RaisesOrOrdinaryReport ==
    /\ (pc # "AllSupplierRows" /\ dropna_raises(supplier_df, base_df, current_config))
           => pc = "Raised"
    /\ (pc = "Finalized" /\ field_absent)
           => /\ "error" \notin DOMAIN result
              /\ \A j \in 1..Len(result.matches) : result.matches[j].base_price = 0

\* the base rows without a name
nameless_rows == {i \in 1..Len(base_df) : pd_isna(base_df[i].name)}

\* C23: a base row whose name is missing never makes Stage 2 or Stage 3
\* raise or abort, whatever its position in the base sheet and also when one
\* of its per-supplier article columns yields a code.
C23_MissingNameNeverRaises ==
    nameless_rows # {} => pc # "Failed"

\* where the code does raise: Stage 3 reaches a row whose article column
\* yields a code before any row whose name yields one
C23_RaisesOnlyBeforeFirstNamedCode ==
    pc = "Failed"
        => \E i \in 1..Len(base_df) :
               /\ \E k \in 1..3 : truthy(column_codes(base_df[i], FALSE)[k])
               /\ \A j \in 1..i : ~truthy(find_product_code_unified(base_df[j].name))

\* C24: match_rate is the number of article matches divided by
\* supplier_total, times 100; it is 0 when supplier_total is 0 and it always
\* lies between 0 and 100.
C24_MatchRate ==
    pc = "Finalized"
        => /\ result.match_rate[2] > 0
           /\ result.supplier_total = 0 => result.match_rate[1] = 0
           /\ result.supplier_total > 0
                  => result.match_rate[1] * result.supplier_total
                         = Len(result.matches) * 100 * result.match_rate[2]
           /\ result.match_rate[1] >= 0
           /\ result.match_rate[1] <= 100 * result.match_rate[2]

\* a report where one of two supplier articles was matched by its article and
\* a later stage matched the other one
C24_Witness ==
    /\ pc = "Finalized"
    /\ result.supplier_total = 2
    /\ Len(result.matches) = 1
    /\ Len(result.bracket_matches) + Len(result.code_matches)
           + Len(result.fuzzy_matches) > 0
    /\ result.match_rate[1] * 2 = 100 * result.match_rate[2]

\* ------------------------------------------------------------------------
\* Direct calls of _calculate_similarity on two cells: the name of a supplier
\* row and the name of a base row, each missing or a text of at most MaxLen
\* letters, in lower case or in capitals
\* ------------------------------------------------------------------------
LowerTexts == UNION {[1..k -> {"a", "b", "c"}] : k \in 0..MaxLen}

TextCells ==
    {NaN, None} \cup {StrCell(t) : t \in LowerTexts} \cup {StrCell(str_upper(t)) : t \in LowerTexts}

InitSimilarity ==
    /\ current_config = "auto"
    /\ \E text1 \in TextCells, text2 \in TextCells :
           /\ supplier_df = <<SupplierRow(NaN, NoPrice, text1, NaN)>>
           /\ base_df = <<BaseRow(NaN, <<NaN, NaN, NaN>>, text2, NaN, NoPrice)>>
    /\ pc = "CellReady"
    /\ matches = <<>> /\ price_changes = <<>> /\ new_items = <<>>
    /\ supplier_dict = <<>> /\ base_dict = <<>>
    /\ unmatched_df = <<>>
    /\ bracket_matches = <<>> /\ code_matches = <<>> /\ fuzzy_matches = <<>>
    /\ result = <<>>

CallSimilarity ==
    /\ pc = "CellReady"
    /\ result' = [call |-> "_calculate_similarity",
                  value |-> _calculate_similarity(supplier_df[1].name, base_df[1].name)]
    /\ pc' = "Returned"
    /\ UNCHANGED call_vars

\* the call with the two arguments exchanged
CallSimilaritySwapped ==
    /\ pc = "Returned"
    /\ result' = [call |-> "_calculate_similarity swapped",
                  first |-> result.value,
                  value |-> _calculate_similarity(base_df[1].name, supplier_df[1].name)]
    /\ pc' = "ReturnedAgain"
    /\ UNCHANGED call_vars

NextSimilarity == CallSimilarity \/ CallSimilaritySwapped

SpecSimilarity == InitSimilarity /\ [][NextSimilarity]_vars

\* a cell that is missing or the empty text
empty_or_null(x) == pd_isna(x) \/ (x.t = "str" /\ x.v = <<>>)

same_ratio(r, q) == r[1] * q[2] = q[1] * r[2]

\* the cell in capitals
upper_cell(x) == IF x.t = "str" THEN StrCell(str_upper(x.v)) ELSE x

\* the value lies in [0, 1], is 0 for an empty or null argument and is the
\* value of the arguments written in capitals
similarity_range_and_case(value, text1, text2) ==
    /\ value[2] > 0 /\ value[1] >= 0 /\ value[1] <= value[2]
    /\ (empty_or_null(text1) \/ empty_or_null(text2)) => value[1] = 0
    /\ same_ratio(value, _calculate_similarity(upper_cell(text1), upper_cell(text2)))

\* C25: similarity(a, b) lies in [0, 1], is 0.0 when either input is empty or
\* null, does not depend on letter case, and similarity(a, b) equals
\* similarity(b, a).
C25_SimilaritySymmetric ==
    /\ pc = "Returned"
           => similarity_range_and_case(result.value, supplier_df[1].name, base_df[1].name)
    /\ pc = "ReturnedAgain"
           => /\ similarity_range_and_case(result.value, base_df[1].name,
                                            supplier_df[1].name)
              /\ same_ratio(result.first, result.value)

\* the part of C25 that the code keeps, for arguments that are not a pandas
\* missing value: range, 0.0 for None and for the empty text, letter case
C25_RangeAndCase ==
    (pc = "Returned" /\ supplier_df[1].name.t # "nan" /\ base_df[1].name.t # "nan")
        => similarity_range_and_case(result.value, supplier_df[1].name, base_df[1].name)

\* C26: perform_comparison and its four stages leave the supplier sheet and
\* the base sheet as they were, and the match and new-item records made by
\* Stage 1 are not modified by Stages 2 to 4: the report returns them as
\* Stage 1 made them.
C26_InputsAndStage1RecordsKept ==
    /\ [][/\ supplier_df' = supplier_df
           /\ base_df' = base_df
           /\ pc # "AllSupplierRows"
                  => /\ matches' = matches
                     /\ price_changes' = price_changes
                     /\ new_items' = new_items]_vars
    /\ [](pc = "Finalized"
             => /\ result.matches = matches
                /\ result.price_changes = price_changes
                /\ result.new_items = new_items
                /\ matches = stage1_matches(supplier_dict, base_dict)
                /\ new_items = stage1_new_items(supplier_dict, base_dict, base_df))

\* a report with an article match and with new items of which a later stage
\* matched one
C26_Witness ==
    /\ pc = "Finalized"
    /\ matches # <<>>
    /\ Len(new_items) > Len(unmatched_df)
    /\ result.new_items = new_items

\* ------------------------------------------------------------------------
\* perform_comparison on items that only Stage 4 can match: supplier names
\* without a code, and at most MaxNamed base rows whose names are missing,
\* equal to a supplier name, near it or unrelated
\* ------------------------------------------------------------------------
txt_abd == <<"a","b","d">>
txt_abcy == <<"a","b","c","y">>

FuzzyBaseNames == {NaN, StrCell(txt_abc), StrCell(txt_abcx), StrCell(txt_abcy), StrCell(<<"x">>)}

FuzzyBaseRow(i, name) ==
    BaseRow(StrCell(<<"B", DigitSeq[i + 1]>>), <<NaN, NaN, NaN>>, name, NaN, NumCell(20))

FuzzySupplierRows ==
    { SupplierRow(StrCell(<<"A","1">>), NumCell(5), StrCell(txt_abc), NaN),
      SupplierRow(StrCell(<<"A","2">>), NumCell(5), StrCell(txt_abd), NaN) }

InitFuzzy ==
    /\ current_config \in Configs
    /\ supplier_df \in SeqsUpTo(FuzzySupplierRows, MaxSupplier) \ {<<>>}
    /\ \E names \in UNION {[1..k -> FuzzyBaseNames] : k \in 1..MaxNamed} :
           base_df = [i \in 1..Len(names) |-> FuzzyBaseRow(i, names[i])]
    /\ pc = "AllSupplierRows"
    /\ matches = <<>> /\ price_changes = <<>> /\ new_items = <<>>
    /\ supplier_dict = <<>> /\ base_dict = <<>>
    /\ unmatched_df = <<>>
    /\ bracket_matches = <<>> /\ code_matches = <<>> /\ fuzzy_matches = <<>>
    /\ result = <<>>

SpecFuzzy == InitFuzzy /\ [][Next]_vars

\* the base rows that have a name
named_rows == {i \in 1..Len(base_df) : pd_notna(base_df[i].name)}

\* the similarity Stage 4 computes between a supplier name and base row i
row_similarity(supplier_name, i) ==
    sequence_matcher_ratio(str_lower(supplier_name),
                           str_lower(str_strip(py_str(base_df[i].name))))

\* base row b is the earliest of the named rows of maximum similarity
earliest_maximum(supplier_name, b) ==
    /\ b \in named_rows
    /\ \A i \in named_rows :
           /\ ratio_ge(row_similarity(supplier_name, b), row_similarity(supplier_name, i))
           /\ i < b => ratio_gt(row_similarity(supplier_name, b),
                                 row_similarity(supplier_name, i))

\* C27: Stage 4 emits at most one fuzzy match per remaining supplier item;
\* the base row of a match has the maximum similarity over all base rows that
\* have a name and is the earliest of the rows tied at that maximum.
C27_BestFuzzyMatch ==
    pc \in {"Stage4Done", "Finalized"}
        => /\ \A k \in 1..Len(new_items) :
                  Cardinality({j \in 1..Len(fuzzy_matches) :
                      fuzzy_matches[j].supplier_article = new_items[k].article}) <= 1
           /\ \A j \in 1..Len(fuzzy_matches) :
                  /\ earliest_maximum(fuzzy_matches[j].supplier_name,
                                      fuzzy_matches[j].base_index + 1)
                  /\ same_ratio(fuzzy_matches[j].similarity_ratio,
                                row_similarity(fuzzy_matches[j].supplier_name,
                                               fuzzy_matches[j].base_index + 1))

\* a fuzzy match with the second of three base rows: the first one is less
\* similar, the third one is tied with the second
C27_Witness ==
    /\ pc = "Stage4Done"
    /\ named_rows = {1, 2, 3}
    /\ \E j \in 1..Len(fuzzy_matches) :
           /\ fuzzy_matches[j].base_index = 1
           /\ same_ratio(row_similarity(fuzzy_matches[j].supplier_name, 2),
                         row_similarity(fuzzy_matches[j].supplier_name, 3))
           /\ ratio_gt(row_similarity(fuzzy_matches[j].supplier_name, 2),
                       row_similarity(fuzzy_matches[j].supplier_name, 1))

\* the flags of match m say whether supplier row s and base row b have the
\* same normalized colour and the same extracted capacity (not found on both
\* sides counts as the same)
flags_describe(m, s, b) ==
    /\ m.color_match <=> safe_color_processing(s.color) = safe_color_processing(b.color)
    /\ m.capacity_match <=> find_battery_capacity(s.name) = find_battery_capacity(b.name)

\* C28: in every match of Stage 2 and of Stage 3, color_match is true exactly
\* when the supplier item and the chosen base row have the same normalized
\* colour, and capacity_match exactly when their extracted capacities are
\* equal, two absent capacities being equal.
C28_FlagsDescribeChosenPair ==
    \A j \in 1..Len(bracket_matches \o code_matches) :
        flags_describe((bracket_matches \o code_matches)[j], supplier_df[1],
                       base_df[(bracket_matches \o code_matches)[j].base_index + 1])

\* a match chosen by capacity alone, the capacity being absent on both
\* sides, in a group whose first row has neither the colour nor the capacity
C28_Witness ==
    /\ Len(bracket_matches \o code_matches) = 1
    /\ (bracket_matches \o code_matches)[1].base_index > 0
    /\ ~(bracket_matches \o code_matches)[1].color_match
    /\ (bracket_matches \o code_matches)[1].capacity_match
    /\ find_battery_capacity(supplier_df[1].name) = None

\* C29: the base_price of a bracket-code match is the value of the chosen
\* base row in the base price column of the active configuration when that
\* value is present and positive, and 0 otherwise.
C29_BracketBasePrice ==
    \A j \in 1..Len(bracket_matches) :
        bracket_matches[j].base_price
            = get_base_price_from_config(base_df[bracket_matches[j].base_index + 1],
                                         current_config)

\* what the code gives: the price of the column "price" under the
\* configuration auto, and 0 under the configurations vitya and dimi
C29_OnlyTheColumnPrice ==
    \A j \in 1..Len(bracket_matches) :
        bracket_matches[j].base_price
            = IF current_config = "auto"
              THEN get_base_price_from_config(base_df[bracket_matches[j].base_index + 1],
                                              "auto")
              ELSE 0

\* the new items of Stage 1 with the article of fuzzy match m
items_of_match(m) == {k \in 1..Len(new_items) : new_items[k].article = m.supplier_article}

\* C30: the supplier_price of every fuzzy match of Stage 4 is the price that
\* Stage 1 recorded for that supplier item in the pool.
C30_FuzzySupplierPrice ==
    \A j \in 1..Len(fuzzy_matches) :
        /\ items_of_match(fuzzy_matches[j]) # {}
        /\ \A k \in items_of_match(fuzzy_matches[j]) :
               fuzzy_matches[j].supplier_price = new_items[k].price

\* what the code gives: the item is in the pool, and the price is 0
C30_FuzzySupplierPriceIsZero ==
    \A j \in 1..Len(fuzzy_matches) :
        /\ items_of_match(fuzzy_matches[j]) # {}
        /\ fuzzy_matches[j].supplier_price = 0

====
